---- MODULE Spec2Model ----
(***************************************************************************)
(* Model of the dataset quality engine of dataset_monitor_api_python:      *)
(*   services/quality.py  derive_quality_score_and_grade (the scorer) and  *)
(*                        estimate_repetitions_by_sampling (the estimator) *)
(*                                                                         *)
(* Number representation.  The code computes with Python floats; the model *)
(* computes with integers:                                                 *)
(*   - a score or a penalty is held in tenths of a point (100.0 is 1000),  *)
(*     the resolution of the returned round(score, 1);                     *)
(*   - a rate count / total_rows is never formed: "rate > 0.05" is the     *)
(*     integer comparison count * 100 > 5 * total_rows;                    *)
(*   - non_alpha_ratio is held in hundredths (0.70 is 70);                 *)
(*   - log2 of a whole number is held in millionths of a bit.              *)
(***************************************************************************)
EXTENDS Integers, Sequences, FiniteSets, TLC

VARIABLES
    pc,          \* position of the call being modelled
    args,        \* arguments of derive_quality_score_and_grade
    result,      \* value returned by derive_quality_score_and_grade
    est_args,    \* arguments of estimate_repetitions_by_sampling
    est_result,  \* outcome of estimate_repetitions_by_sampling
    pool,        \* a worker pool executing one p.map call
    run,         \* a call of run_all_checks on a dataset
    api,         \* the HTTP endpoints, the dataset registry and the cache
    hist,        \* a call of plotting.generate_plot_spec
    insights,    \* value returned by get_quality_insights
    analysis_cache  \* a core.cache.Cache and the calls made on it

vars == <<pc, args, result, est_args, est_result, pool, run, api, hist, insights,
               analysis_cache>>

\* Value of the variables of a component that takes no part in a behaviour.
NotStarted == "not started"

Max(a, b) == IF a >= b THEN a ELSE b
Min(a, b) == IF a <= b THEN a ELSE b

RECURSIVE SumSeq(_)
SumSeq(s) == IF s = <<>> THEN 0 ELSE Head(s) + SumSeq(Tail(s))

(***************************************************************************)
(* ------------------------------ scorer --------------------------------- *)
(* An argument record a has the fields of the parameter list of            *)
(* derive_quality_score_and_grade.  The dictionaries are modelled by what  *)
(* the scorer reads of them: missing_value_count and lang_dist by the      *)
(* sequence of their values (the scorer iterates over .values() or         *)
(* .items() and takes len()), encoding_issues / html_code_log /            *)
(* token_outliers by a record of their keys.                               *)
(***************************************************************************)

\* Points -> tenths of a point.
Pts(n) == n * 10

\* Mutant: the last tier tests ">= 0", so a clean dataset is penalised.
DuplicatePenaltyGeZero(a) ==
    LET dup_bad == a.duplicate_ids + a.duplicate_texts
    IN  IF dup_bad * 100 > 5 * a.total_rows THEN Pts(30)
        ELSE IF dup_bad * 100 > 1 * a.total_rows THEN Pts(15)
        ELSE IF dup_bad >= 0 THEN Pts(5)
        ELSE 0

\* Mutant: the top tier starts at 1 % (the threshold of the simpler grade).
DuplicatePenaltyOnePercent(a) ==
    LET dup_bad == a.duplicate_ids + a.duplicate_texts
    IN  IF dup_bad * 100 > 1 * a.total_rows THEN Pts(30)
        ELSE IF dup_bad > 0 THEN Pts(5)
        ELSE 0

\* --- Duplicates ---
DuplicatePenalty(a) ==
    LET dup_bad == a.duplicate_ids + a.duplicate_texts
    IN  IF dup_bad * 100 > 5 * a.total_rows THEN Pts(30)
        ELSE IF dup_bad * 100 > 1 * a.total_rows THEN Pts(15)
        ELSE IF dup_bad > 0 THEN Pts(5)
        ELSE 0

\* --- Missing values: one column's contribution ---
MissingColumnPenalty(cnt, total_rows) ==
    IF cnt * 100 > 20 * total_rows THEN 20
    ELSE IF cnt * 100 > 10 * total_rows THEN 10
    ELSE IF cnt * 100 > 1 * total_rows THEN 3
    ELSE 0

RECURSIVE TotalMissingPenalty(_, _)
TotalMissingPenalty(counts, total_rows) ==
    IF counts = <<>> THEN 0
    ELSE MissingColumnPenalty(Head(counts), total_rows)
         + TotalMissingPenalty(Tail(counts), total_rows)

\* Mutant: the cap of 25 is left out.
MissingPenaltyUncapped(a) ==
    Pts(TotalMissingPenalty(a.missing_value_count, a.total_rows))

MissingPenalty(a) ==
    Pts(Min(TotalMissingPenalty(a.missing_value_count, a.total_rows), 25))

\* --- Encoding issues ---
\* min(encoding_total / 10, 8) points is Min(encoding_total, 80) tenths.
EncodingPenalty(a) ==
    LET encoding_total == a.encoding_issues.replacement_char
                          + a.encoding_issues.mojibake
                          + a.encoding_issues.control_chars
    IN  IF encoding_total * 100 > 10 * a.total_rows THEN Pts(20)
        ELSE IF encoding_total * 100 > 5 * a.total_rows THEN Pts(10)
        ELSE IF encoding_total > 0 THEN Min(encoding_total, Pts(8))
        ELSE 0

\* Mutant: the two amounts of the extreme-outlier tiers are exchanged.
OutlierPenaltySwapped(a) ==
    LET above_p99 == a.token_outliers.above_p99
        extreme   == a.token_outliers.too_short + a.token_outliers.too_long
        p99_part  == IF above_p99 * 100 > 5 * a.total_rows THEN 15
                     ELSE IF above_p99 * 100 > 2 * a.total_rows THEN 8
                     ELSE IF above_p99 > 0 THEN 3
                     ELSE 0
        ext_part  == IF extreme * 100 > 5 * a.total_rows THEN 5
                     ELSE IF extreme > 0 THEN 10
                     ELSE 0
    IN  Pts(p99_part + ext_part)

\* --- Token outliers ---
OutlierPenalty(a) ==
    LET above_p99 == a.token_outliers.above_p99
        extreme   == a.token_outliers.too_short + a.token_outliers.too_long
        p99_part  == IF above_p99 * 100 > 5 * a.total_rows THEN 15
                     ELSE IF above_p99 * 100 > 2 * a.total_rows THEN 8
                     ELSE IF above_p99 > 0 THEN 3
                     ELSE 0
        ext_part  == IF extreme * 100 > 5 * a.total_rows THEN 10
                     ELSE IF extreme > 0 THEN 5
                     ELSE 0
    IN  Pts(p99_part + ext_part)

\* --- Non-alpha ratio (hundredths) ---
NonAlphaPenalty(a) ==
    IF a.non_alpha_ratio > 70 THEN Pts(20)
    ELSE IF a.non_alpha_ratio > 50 THEN Pts(15)
    ELSE IF a.non_alpha_ratio > 30 THEN Pts(8)
    ELSE IF a.non_alpha_ratio > 20 THEN Pts(3)
    ELSE 0

\* --- Repetition ---
RepetitionPenalty(a) ==
    IF a.repetition * 100 > 10 * a.total_rows THEN Pts(15)
    ELSE IF a.repetition * 100 > 5 * a.total_rows THEN Pts(10)
    ELSE IF a.repetition * 100 > 2 * a.total_rows THEN Pts(5)
    ELSE IF a.repetition > 0 THEN Pts(2)
    ELSE 0

\* --- HTML / code / log presence ---
HtmlPenalty(a) ==
    LET html_total == a.html_code_log.html_like + a.html_code_log.code_like
                      + a.html_code_log.log_like
    IN  IF html_total * 100 > 20 * a.total_rows THEN Pts(15)
        ELSE IF html_total * 100 > 10 * a.total_rows THEN Pts(10)
        ELSE IF html_total * 100 > 5 * a.total_rows THEN Pts(5)
        ELSE IF html_total > 0 THEN Pts(2)
        ELSE 0

\* --- Language distribution ---
\* math.log2 of a whole number 1..24, in millionths of a bit.
Log2Table ==
    <<0, 1000000, 1584963, 2000000, 2321928, 2584963, 2807355, 3000000,
      3169925, 3321928, 3459432, 3584963, 3700440, 3807355, 3906891, 4000000,
      4087463, 4169925, 4247928, 4321928, 4392317, 4459432, 4523562, 4584963>>

log2(n) == Log2Table[n]

\* total_lang_docs * entropy: with p = count / total_lang_docs,
\* -p * log2(p) = count * (log2(total_lang_docs) - log2(count)) / total_lang_docs.
RECURSIVE EntropyTimesTotal(_, _)
EntropyTimesTotal(counts, total_lang_docs) ==
    IF counts = <<>> THEN 0
    ELSE (IF Head(counts) > 0
          THEN Head(counts) * (log2(total_lang_docs) - log2(Head(counts)))
          ELSE 0)
         + EntropyTimesTotal(Tail(counts), total_lang_docs)

\* diversity_ratio > r/10  is  entropy * 10 > r * max_entropy, both sides
\* multiplied by total_lang_docs.
LanguagePenalty(a) ==
    IF Len(a.lang_dist) > 1
    THEN LET total_lang_docs == SumSeq(a.lang_dist)
         IN  IF total_lang_docs > 0
             THEN LET entropyT    == EntropyTimesTotal(a.lang_dist, total_lang_docs)
                      max_entropy == log2(Len(a.lang_dist))
                      Over(r)     == entropyT * 10 > r * max_entropy * total_lang_docs
                  IN  IF max_entropy > 0
                      THEN IF Over(8) THEN Pts(8)
                           ELSE IF Over(6) THEN Pts(5)
                           ELSE IF Over(4) THEN Pts(3)
                           ELSE 0
                      ELSE 0
             ELSE 0
    ELSE 0

\* Mutant: the cutoffs are compared with ">" instead of ">=".
GradeOfStrict(score) ==
    IF score > Pts(90) THEN "Excellent"
    ELSE IF score > Pts(80) THEN "Good"
    ELSE IF score > Pts(65) THEN "Fair"
    ELSE IF score > Pts(40) THEN "Poor"
    ELSE "Needs Attention"

\* --- Grade from the final score (tenths) ---
GradeOf(score) ==
    IF score >= Pts(90) THEN "Excellent"
    ELSE IF score >= Pts(80) THEN "Good"
    ELSE IF score >= Pts(65) THEN "Fair"
    ELSE IF score >= Pts(40) THEN "Poor"
    ELSE "Needs Attention"

\* The sum the running score has lost when the last block is done.
TotalPenalty(a) ==
    DuplicatePenalty(a) + MissingPenalty(a) + EncodingPenalty(a)
    + OutlierPenalty(a) + NonAlphaPenalty(a) + RepetitionPenalty(a)
    + HtmlPenalty(a) + LanguagePenalty(a)

\* Mutant: the final max(0.0, score) is left out.
ScoreBodyNoFloor(a) ==
    IF a.total_rows = 0
    THEN [score |-> -1, grade |-> "none", raised |-> "ZeroDivisionError"]
    ELSE LET score == Pts(100) - TotalPenalty(a)
         IN  [score |-> score, grade |-> GradeOf(score), raised |-> "none"]

\* Lines 254-382, entered with any total_rows: the first statement that
\* divides by total_rows (dup_rate = dup_bad / total_rows) raises
\* ZeroDivisionError when total_rows is 0.
ScoreBody(a) ==
    IF a.total_rows = 0
    THEN [score |-> -1, grade |-> "none", raised |-> "ZeroDivisionError"]
    ELSE LET score == Max(0, Pts(100) - TotalPenalty(a))
         IN  [score |-> score, grade |-> GradeOf(score), raised |-> "none"]

\* Mutant: the early return for total_rows = 0 is left out.
DeriveWithoutGuard(a) == ScoreBody(a)

derive_quality_score_and_grade(a) ==
    IF a.total_rows = 0
    THEN [score |-> 0, grade |-> "Needs Attention", raised |-> "none"]
    ELSE ScoreBody(a)

(***************************************************************************)
(* Arguments the scorer is called with.  Each signal group has a grid of   *)
(* values chosen on both sides of, and on, its thresholds for the          *)
(* total_rows values below; a call has every group either clean or at the  *)
(* worst value of its grid, except one group that ranges over its whole    *)
(* grid.                                                                   *)
(***************************************************************************)
MaxRowsK == 2     \* total_rows is 0 or a multiple of a thousand up to this
MaxCols  == 2     \* columns in missing_value_count

RowsGrid == {0} \cup {1000 * k : k \in 1..MaxRowsK}

Groups == {"dup", "missing", "encoding", "outliers", "non_alpha",
           "repetition", "html", "lang"}

Grid(g) ==
    CASE g = "dup"        -> [duplicate_ids : {0, 10, 60, 200},
                              duplicate_texts : {0, 50}]
      [] g = "missing"    -> [1..MaxCols -> {0, 20, 150, 700}]
      [] g = "encoding"   -> [replacement_char : {0, 7, 60},
                              mojibake : {0, 50, 90},
                              control_chars : {0, 100}]
      [] g = "outliers"   -> [above_p99 : {0, 10, 30, 60},
                              too_short : {0, 30},
                              too_long : {0, 50}]
      [] g = "non_alpha"  -> {0, 5, 20, 25, 30, 40, 50, 60, 70, 80}
      [] g = "repetition" -> {0, 10, 40, 60, 100, 150, 250}
      [] g = "html"       -> [html_like : {0, 10},
                              code_like : {0, 60, 150},
                              log_like : {0, 250}]
      [] g = "lang"       -> {<<>>, <<10>>, <<12, 1>>, <<9, 1>>, <<5, 1>>,
                              <<1, 1>>, <<5, 0>>, <<0, 0>>, <<4, 3, 1>>}

Clean(g) ==
    CASE g = "dup"        -> [duplicate_ids |-> 0, duplicate_texts |-> 0]
      [] g = "missing"    -> [c \in 1..MaxCols |-> 0]
      [] g = "encoding"   -> [replacement_char |-> 0, mojibake |-> 0,
                              control_chars |-> 0]
      [] g = "outliers"   -> [above_p99 |-> 0, too_short |-> 0, too_long |-> 0]
      [] g = "non_alpha"  -> 0
      [] g = "repetition" -> 0
      [] g = "html"       -> [html_like |-> 0, code_like |-> 0, log_like |-> 0]
      [] g = "lang"       -> <<10>>

Worst(g) ==
    CASE g = "dup"        -> [duplicate_ids |-> 200, duplicate_texts |-> 50]
      [] g = "missing"    -> [c \in 1..MaxCols |-> 700]
      [] g = "encoding"   -> [replacement_char |-> 60, mojibake |-> 90,
                              control_chars |-> 100]
      [] g = "outliers"   -> [above_p99 |-> 60, too_short |-> 30, too_long |-> 50]
      [] g = "non_alpha"  -> 80
      [] g = "repetition" -> 250
      [] g = "html"       -> [html_like |-> 10, code_like |-> 150, log_like |-> 250]
      [] g = "lang"       -> <<1, 1>>

\* The argument record of a call with total_rows n and group values v[g].
MakeArgs(n, v) ==
    [total_rows          |-> n,
     duplicate_ids       |-> v["dup"].duplicate_ids,
     duplicate_texts     |-> v["dup"].duplicate_texts,
     missing_value_count |-> v["missing"],
     encoding_issues     |-> v["encoding"],
     token_outliers      |-> v["outliers"],
     non_alpha_ratio     |-> v["non_alpha"],
     repetition          |-> v["repetition"],
     html_code_log       |-> v["html"],
     lang_dist           |-> v["lang"]]

\* The group values of an argument record.
GroupValues(a) ==
    [g \in Groups |->
        CASE g = "dup"        -> [duplicate_ids |-> a.duplicate_ids,
                                  duplicate_texts |-> a.duplicate_texts]
          [] g = "missing"    -> a.missing_value_count
          [] g = "encoding"   -> a.encoding_issues
          [] g = "outliers"   -> a.token_outliers
          [] g = "non_alpha"  -> a.non_alpha_ratio
          [] g = "repetition" -> a.repetition
          [] g = "html"       -> a.html_code_log
          [] g = "lang"       -> a.lang_dist]

NoResult == [score |-> -1, grade |-> "none", raised |-> "none"]

\* est_result before the call has returned.
NoEstimate ==
    [raised |-> "pending", sample_n |-> 0, sample_count |-> 0,
     sample_prop |-> [num |-> 0, den |-> 1], estimate_total |-> 0,
     ci_total |-> <<0, 0>>, total_rows |-> 0]

NoEstimateArgs == [texts |-> <<>>, total_rows |-> 0, sample_size |-> 0]

InitScorer ==
    /\ pc = "call"
    /\ result = NoResult
    /\ est_args = NoEstimateArgs
    /\ est_result = NoEstimate
    /\ pool = NotStarted /\ run = NotStarted
    /\ api = NotStarted /\ hist = NotStarted
    /\ insights = NotStarted /\ analysis_cache = NotStarted
    /\ \E n \in RowsGrid, focus \in Groups, worst \in SUBSET Groups :
         \E x \in Grid(focus) :
            args = MakeArgs(n, [g \in Groups |->
                                  IF g = focus THEN x
                                  ELSE IF g \in worst THEN Worst(g)
                                  ELSE Clean(g)])

\* The call quality.derive_quality_score_and_grade(...) of basic_check.
Derive ==
    /\ pc = "call"
    /\ result' = derive_quality_score_and_grade(args)
    /\ pc' = "return"
    /\ UNCHANGED <<args, est_args, est_result, pool, run, api, hist, insights,
               analysis_cache>>

NextScorer == Derive

SpecScorer == InitScorer /\ [][NextScorer]_vars

(***************************************************************************)
(* Properties of the scorer, checked under SpecScorer.                     *)
(***************************************************************************)
Returned == pc = "return"

\* The call with the group g of the arguments a replaced by the value y.
WithGroup(a, g, y) == MakeArgs(a.total_rows, [GroupValues(a) EXCEPT ![g] = y])

\* The call with every group but g clean.
Isolated(a, g) ==
    MakeArgs(a.total_rows, [h \in Groups |->
                              IF h = g THEN GroupValues(a)[g] ELSE Clean(h)])

\* What the scorer subtracts for group g when every other group is clean.
AlonePenalty(a, g) ==
    Pts(100) - derive_quality_score_and_grade(Isolated(a, g)).score

RECURSIVE SumAlone(_, _)
SumAlone(S, a) ==
    IF S = {} THEN 0
    ELSE LET g == CHOOSE h \in S : TRUE
         IN  AlonePenalty(a, g) + SumAlone(S \ {g}, a)

\* y is x with exactly one signal of group g increased.
SingleIncrease(g, x, y) ==
    IF g \in {"non_alpha", "repetition"}
    THEN y > x
    ELSE /\ DOMAIN y = DOMAIN x
         /\ \E k \in DOMAIN x :
              /\ y[k] > x[k]
              /\ \A j \in DOMAIN x \ {k} : y[j] = x[j]

AllClean(a) == \A g \in Groups \ {"lang"} : GroupValues(a)[g] = Clean(g)

\* C1: with total_rows = 0 the call returns score 0.0 and grade
\* "Needs Attention" whatever the other arguments are, and raises no
\* ZeroDivisionError (no division by total_rows is reached).
C1_ZeroRowsShortCircuit ==
    (Returned /\ args.total_rows = 0)
        => result = [score |-> 0, grade |-> "Needs Attention", raised |-> "none"]

C1_Witness ==
    /\ Returned
    /\ args.total_rows = 0
    /\ args.duplicate_ids > 0
    /\ args.repetition > 0
    /\ result.score = 0

\* C2: for total_rows > 0, increasing one anomaly count or rate and keeping
\* every other argument never increases the returned score.
C2_Monotone ==
    (Returned /\ args.total_rows > 0) =>
        \A g \in Groups \ {"lang"} :
            \A y \in Grid(g) :
                SingleIncrease(g, GroupValues(args)[g], y) =>
                    derive_quality_score_and_grade(WithGroup(args, g, y)).score
                        <= result.score

\* A call whose score is positive and strictly drops when one signal grows.
C2_Witness ==
    /\ Returned
    /\ args.total_rows > 0
    /\ \E y \in Grid("encoding") :
         /\ SingleIncrease("encoding", args.encoding_issues, y)
         /\ derive_quality_score_and_grade(WithGroup(args, "encoding", y)).score
              < result.score

\* C3: the returned score lies in [0, 100]; it is 0 when the penalties sum
\* to more than 100.
C3_ScoreInRange ==
    Returned =>
        /\ result.score >= 0
        /\ result.score <= Pts(100)
        /\ (args.total_rows > 0 /\ TotalPenalty(args) > Pts(100)) => result.score = 0

C3_Witness ==
    /\ Returned
    /\ args.total_rows > 0
    /\ TotalPenalty(args) > Pts(100)
    /\ result.score = 0

\* C4: the returned grade is the one the cutoffs 90 / 80 / 65 / 40 assign to
\* the returned score.
C4_GradeMatchesScore ==
    Returned =>
        /\ (result.grade = "Excellent") <=> (result.score >= 900)
        /\ (result.grade = "Good") <=> (result.score >= 800 /\ result.score < 900)
        /\ (result.grade = "Fair") <=> (result.score >= 650 /\ result.score < 800)
        /\ (result.grade = "Poor") <=> (result.score >= 400 /\ result.score < 650)
        /\ (result.grade = "Needs Attention") <=> (result.score < 400)

\* A score exactly on a cutoff.
C4_Witness ==
    /\ Returned
    /\ result.score = 650
    /\ result.grade = "Fair"

\* C5: total_rows > 0, every count and non_alpha_ratio 0 and exactly one
\* language give score 100.0 and grade "Excellent".
C5_CleanIsPerfect ==
    (Returned /\ args.total_rows > 0 /\ AllClean(args) /\ Len(args.lang_dist) = 1)
        => (result.score = Pts(100) /\ result.grade = "Excellent"
            /\ result.raised = "none")

C5_Witness ==
    /\ Returned
    /\ args.total_rows > 0
    /\ AllClean(args)
    /\ Len(args.lang_dist) = 1
    /\ result.score = Pts(100)

Cap(g) ==
    CASE g = "dup"        -> 30
      [] g = "missing"    -> 25
      [] g = "encoding"   -> 20
      [] g = "outliers"   -> 25
      [] g = "non_alpha"  -> 20
      [] g = "repetition" -> 15
      [] g = "html"       -> 15
      [] g = "lang"       -> 8

\* C6: penalties are independent and capped: the returned score is 100 less
\* what each signal group subtracts when it is the only one present (floored
\* at 0), and that amount is at most the group's cap.
C6_IndependentCapped ==
    (Returned /\ args.total_rows > 0) =>
        /\ \A g \in Groups :
              /\ AlonePenalty(args, g) >= 0
              /\ AlonePenalty(args, g) <= Pts(Cap(g))
        /\ result.score = Max(0, Pts(100) - SumAlone(Groups, args))

\* Every column over the 20 % threshold, other groups penalised as well.
C6_Witness ==
    /\ Returned
    /\ args.total_rows > 0
    /\ TotalMissingPenalty(args.missing_value_count, args.total_rows) > 25
    /\ AlonePenalty(args, "missing") = Pts(25)
    /\ args.duplicate_ids > 0
    /\ result.score > 0

OnlyDuplicates(a) ==
    /\ a.total_rows > 0
    /\ \A g \in Groups \ {"dup", "lang"} : GroupValues(a)[g] = Clean(g)
    /\ Len(a.lang_dist) = 1

\* C7: with every other signal zero and one language, a duplicate rate over
\* 5 % gives 70.0 and "Fair", a rate in (1 %, 5 %] gives 85.0 and a rate in
\* (0, 1 %] gives 95.0.
C7_DuplicateTiers ==
    (Returned /\ OnlyDuplicates(args)) =>
        LET dup == args.duplicate_ids + args.duplicate_texts
            n   == args.total_rows
        IN  /\ dup * 100 > 5 * n => (result.score = 700 /\ result.grade = "Fair")
            /\ (dup * 100 > n /\ dup * 100 <= 5 * n) => result.score = 850
            /\ (dup > 0 /\ dup * 100 <= n) => result.score = 950

\* The scenario total_rows = 1000, duplicate_ids = 60.
C7_Witness ==
    /\ Returned
    /\ OnlyDuplicates(args)
    /\ args.total_rows = 1000
    /\ args.duplicate_ids = 60
    /\ args.duplicate_texts = 0
    /\ result.score = 700
    /\ result.grade = "Fair"

(***************************************************************************)
(* ----------------------------- estimator ------------------------------- *)
(* estimate_repetitions_by_sampling(texts, total_rows, sample_size).       *)
(* A row of texts is modelled by what _check_rep makes of it: "rep" (a     *)
(* string the repetition pattern matches), "plain" (a string it does not   *)
(* match) or "nonstr" (not a string).                                      *)
(*                                                                         *)
(* The arithmetic is exact.  z = 1.96 = 49/25 and z*z = 2401/625.  With    *)
(* phat = kk/n (kk = k when n > 0, and 0 otherwise) the code's values are  *)
(*    denom    = 1 + z*z/n                 = WilsonD(n) / (625 n)          *)
(*    center   = (phat + z*z/2n) / denom   = WilsonC(kk) / (2 WilsonD(n))  *)
(*    radicand = (phat (1 - phat) + z*z/4n) / n                            *)
(*             = (2500 kk (n - kk) + 2401 n) / (2500 n^3)                  *)
(*    margin   = z sqrt(radicand) / denom                                  *)
(* and a number p = a/b lies in [center - margin, center + margin] iff     *)
(* (p - center)^2 <= margin^2, which with the denominators cleared is      *)
(*    WilsonG(kk, n, a, b) = n WilsonD(n) a^2 - n WilsonC(kk) a b          *)
(*                           + 625 kk^2 b^2  <=  0       (for n > 0).      *)
(* A bound is therefore never formed as a number: it is known through its  *)
(* comparison with every fraction a/b, which is what round() needs.        *)
(***************************************************************************)
ZZNum == 49 * 49      \* z * z = ZZNum / ZZDen
ZZDen == 25 * 25

Sign(x) == IF x > 0 THEN 1 ELSE IF x < 0 THEN -1 ELSE 0

\* Sign of a/b - c/d, for b > 0 and d > 0.
CmpRat(a, b, c, d) == Sign(a * d - c * b)

\* Python round(a / b) for b > 0: to the nearest integer, a tie to the even one.
RoundHalfEven(a, b) ==
    LET fl   == a \div b
        rem2 == 2 * (a - fl * b)
    IN  IF rem2 < b THEN fl
        ELSE IF rem2 > b THEN fl + 1
        ELSE IF fl % 2 = 0 THEN fl ELSE fl + 1

\* _check_rep: 1 if the row is a string the pattern matches, else 0.
CheckRep(row) == IF row = "rep" THEN 1 ELSE 0

\* counts = p.map(_check_rep, texts)
RECURSIVE MapCheckRep(_)
MapCheckRep(texts) ==
    IF texts = <<>> THEN <<>>
    ELSE <<CheckRep(Head(texts))>> \o MapCheckRep(Tail(texts))

\* phat = k / sample_size if sample_size > 0 else 0.0, as a fraction.
Phat(k, n) ==
    IF n > 0 THEN [num |-> k, den |-> n] ELSE [num |-> 0, den |-> 1]

WilsonD(n) == ZZDen * n + ZZNum
WilsonC(kk) == 2 * ZZDen * kk + ZZNum

\* Mutant: the square root never raises (its argument is floored at 0).
RadicandNeverNegative(kk, n) == FALSE

\* math.sqrt raises ValueError when its argument is negative.
RadicandNegative(kk, n) == n * (4 * ZZDen * kk * (n - kk) + ZZNum * n) < 0

WilsonG(kk, n, a, b) ==
    n * WilsonD(n) * a * a - n * WilsonC(kk) * a * b + ZZDen * kk * kk * b * b

\* Sign of (center - margin) - a/b and of (center + margin) - a/b, b > 0.
\* For n > 0 the margin is >= 0.  For n < 0 (phat = 0) the radicand is the
\* square of z / 2n, so the two values are the fractions 2401 / WilsonD(n)
\* and 0.
CmpLowerRaw(kk, n, a, b) ==
    IF n < 0
    THEN IF WilsonD(n) > 0 THEN CmpRat(ZZNum, WilsonD(n), a, b)
         ELSE CmpRat(0 - ZZNum, 0 - WilsonD(n), a, b)
    ELSE LET g == WilsonG(kk, n, a, b)
             c == CmpRat(a, b, WilsonC(kk), 2 * WilsonD(n))
         IN  IF g < 0 THEN -1
             ELSE IF g = 0 THEN (IF c <= 0 THEN 0 ELSE -1)
             ELSE (IF c < 0 THEN 1 ELSE -1)

CmpUpperRaw(kk, n, a, b) ==
    IF n < 0
    THEN CmpRat(0, 1, a, b)
    ELSE LET g == WilsonG(kk, n, a, b)
             c == CmpRat(a, b, WilsonC(kk), 2 * WilsonD(n))
         IN  IF g < 0 THEN 1
             ELSE IF g = 0 THEN (IF c >= 0 THEN 0 ELSE 1)
             ELSE (IF c < 0 THEN 1 ELSE -1)

\* lower = max(0.0, center - margin), upper = min(1.0, center + margin).
CmpLower(kk, n, a, b) == Max(CmpLowerRaw(kk, n, a, b), CmpRat(0, 1, a, b))
CmpUpper(kk, n, a, b) == Min(CmpUpperRaw(kk, n, a, b), CmpRat(1, 1, a, b))

\* Mutant: the two bounds are exchanged (ci_total = (upper, lower)).
CmpBoundSwapped(bound, kk, n, a, b) ==
    IF bound = "lower" THEN CmpUpper(kk, n, a, b) ELSE CmpLower(kk, n, a, b)

\* Sign of lower - a/b or of upper - a/b.
CmpBound(bound, kk, n, a, b) ==
    IF bound = "lower" THEN CmpLower(kk, n, a, b) ELSE CmpUpper(kk, n, a, b)

\* int(round(v * total_rows)) for the bound v (0 <= v <= 5), known through
\* the sign of v - a/b:  v * N >= L - 1/2  iff  v >= (2L - 1) / 2N.
RoundScaled(bound, kk, n, total_rows) ==
    LET reached == {L \in 1..(5 * total_rows) :
                        CmpBound(bound, kk, n, 2 * L - 1, 2 * total_rows) >= 0}
    IN  IF total_rows = 0 \/ reached = {} THEN 0
        ELSE LET top == CHOOSE L \in reached : \A M \in reached : M <= L
             IN  IF CmpBound(bound, kk, n, 2 * top - 1, 2 * total_rows) = 0
                    /\ top % 2 = 1
                 THEN top - 1
                 ELSE top

\* Lines 54-62 and 65, 72: the interval of the else branch.  Its first
\* statement divides by sample_size, and math.sqrt raises on a negative
\* argument.
WilsonCiTotal(kk, n, total_rows) ==
    IF n = 0 THEN [raised |-> "ZeroDivisionError", ci |-> <<0, 0>>]
    ELSE IF RadicandNegative(kk, n) THEN [raised |-> "ValueError", ci |-> <<0, 0>>]
    ELSE [raised |-> "none",
          ci |-> <<RoundScaled("lower", kk, n, total_rows),
                   RoundScaled("upper", kk, n, total_rows)>>]

\* Mutant: the branch "if sample_size == 0: lower = upper = 0.0" is left out.
CiTotalUnguarded(kk, n, total_rows) == WilsonCiTotal(kk, n, total_rows)

\* Lines 51-65, 72: ci_total.
CiTotal(kk, n, total_rows) ==
    IF n = 0 THEN [raised |-> "none", ci |-> <<0, 0>>]
    ELSE WilsonCiTotal(kk, n, total_rows)

estimate_repetitions_by_sampling(texts, total_rows, sample_size) ==
    LET counts   == MapCheckRep(texts)
        k        == SumSeq(counts)
        phat     == Phat(k, sample_size)
        interval == CiTotal(phat.num, sample_size, total_rows)
    IN  IF interval.raised # "none"
        THEN [NoEstimate EXCEPT !.raised = interval.raised]
        ELSE [raised         |-> "none",
              sample_n       |-> sample_size,
              sample_count   |-> k,
              sample_prop    |-> phat,
              estimate_total |-> RoundHalfEven(phat.num * total_rows, phat.den),
              ci_total       |-> interval.ci,
              total_rows     |-> total_rows]

MaxTexts      == 4    \* rows in texts
MaxSample     == 5    \* largest sample_size
MaxNegSample  == 4    \* sample_size goes down to minus this
MaxTotalRows  == 12   \* largest total_rows

RowKinds == {"rep", "plain", "nonstr"}

TextLists == UNION {[1..len -> RowKinds] : len \in 0..MaxTexts}

InitEstimator ==
    /\ pc = "call"
    /\ args = MakeArgs(0, [g \in Groups |-> Clean(g)])
    /\ result = NoResult
    /\ est_result = NoEstimate
    /\ pool = NotStarted /\ run = NotStarted
    /\ api = NotStarted /\ hist = NotStarted
    /\ insights = NotStarted /\ analysis_cache = NotStarted
    /\ \E texts \in TextLists, n \in 0..MaxTotalRows,
          size \in (0 - MaxNegSample)..MaxSample :
         est_args = [texts |-> texts, total_rows |-> n, sample_size |-> size]

\* A call of estimate_repetitions_by_sampling.
Estimate ==
    /\ pc = "call"
    /\ est_result' = estimate_repetitions_by_sampling(
                         est_args.texts, est_args.total_rows, est_args.sample_size)
    /\ pc' = IF est_result'.raised = "none" THEN "return" ELSE "raise"
    /\ UNCHANGED <<args, result, est_args, pool, run, api, hist, insights,
               analysis_cache>>

NextEstimator == Estimate

SpecEstimator == InitEstimator /\ [][NextEstimator]_vars

(***************************************************************************)
(* Properties of the estimator, checked under SpecEstimator.               *)
(***************************************************************************)
EstimateDone == pc \in {"return", "raise"}

\* C8: with sample_size = 0 the call returns estimate_total = 0 and
\* ci_total = (0, 0) for every total_rows and raises no ZeroDivisionError.
C8_EmptySample ==
    (EstimateDone /\ est_args.sample_size = 0) =>
        /\ pc = "return"
        /\ est_result.raised = "none"
        /\ est_result.estimate_total = 0
        /\ est_result.ci_total = <<0, 0>>

C8_Witness ==
    /\ pc = "return"
    /\ est_args.sample_size = 0
    /\ est_args.texts = <<>>
    /\ est_args.total_rows > 0
    /\ est_result.ci_total = <<0, 0>>

\* C9: for k detections among n > 0 sampled rows and a population N >= 0
\* the returned interval satisfies 0 <= low <= high <= N.
C9_IntervalWithinPopulation ==
    (pc = "return" /\ est_args.sample_size > 0) =>
        /\ 0 <= est_result.ci_total[1]
        /\ est_result.ci_total[1] <= est_result.ci_total[2]
        /\ est_result.ci_total[2] <= est_args.total_rows

\* Every sampled row detected (k = n): the upper bound is the population.
C9_Witness ==
    /\ pc = "return"
    /\ est_args.sample_size > 0
    /\ est_result.sample_count = est_args.sample_size
    /\ Len(est_args.texts) = est_args.sample_size
    /\ est_args.total_rows > 0
    /\ est_result.ci_total[2] = est_args.total_rows
    /\ est_result.ci_total[1] > 0

\* C10: every returned estimate has 0 <= sample_prop <= 1 and
\* estimate_total = round(sample_prop * total_rows) -- an integer at most
\* one half away from sample_prop * total_rows -- whatever texts and
\* sample_size the call was given.
C10_ProportionAndEstimate ==
    pc = "return" =>
        LET prop == est_result.sample_prop
            diff == est_result.estimate_total * prop.den
                    - prop.num * est_args.total_rows
        IN  /\ prop.den > 0
            /\ 0 <= prop.num
            /\ prop.num <= prop.den
            /\ 2 * diff <= prop.den
            /\ 2 * diff >= 0 - prop.den

\* A call whose texts list is longer than sample_size and that returns.
C10_Witness ==
    /\ pc = "return"
    /\ est_args.sample_size > 0
    /\ Len(est_args.texts) > est_args.sample_size
    /\ est_result.sample_count = est_args.sample_size
    /\ est_result.sample_prop = [num |-> est_args.sample_size,
                                 den |-> est_args.sample_size]

(***************************************************************************)
(* ----------------------- parallel classification ----------------------- *)
(* detect_languages_sample and estimate_repetitions_by_sampling hand the   *)
(* sample to multiprocessing.Pool.map.  map cuts the list into chunks of   *)
(* chunksize consecutive rows and puts them on the task queue; each worker *)
(* process takes the next chunk, applies the function to its rows and      *)
(* posts the results; map blocks until every chunk has posted and returns  *)
(* the results in the order of the rows, or re-raises what a call raised.  *)
(*                                                                         *)
(* A text row is one of                                                    *)
(*   "rep"     an English string in which a word recurs 5+ times,          *)
(*   "plain"   an English string without repetition,                       *)
(*   "dansk"   a Danish string without repetition,                         *)
(*   "digits"  a string without letters: langdetect finds no features,     *)
(*   "nonstr"  a null of the text column (None in the sample list).        *)
(***************************************************************************)
TextValues == {"rep", "plain", "dansk", "digits", "nonstr"}

DetectErrors == {"LangDetectException", "TypeError"}

\* langdetect.detect(text): a language code, or the exception it raises.
detect(text) ==
    CASE text = "rep"    -> "en"
      [] text = "plain"  -> "en"
      [] text = "dansk"  -> "da"
      [] text = "digits" -> "LangDetectException"
      [] OTHER           -> "TypeError"

\* Mutant: detect_lang without its try/except.
DetectLangUncaught(text) == detect(text)

detect_lang(text) ==
    IF detect(text) \in DetectErrors THEN "unknown" ELSE detect(text)

\* The function a pool applies to one row.
Classify(fn, text) ==
    IF fn = "detect_lang" THEN detect_lang(text) ELSE CheckRep(text)

\* Pool.map's default chunksize: divmod(len(iterable), 4 * workers), rounded up.
MapChunksize(len, workers) ==
    IF len = 0 THEN 0
    ELSE IF len % (4 * workers) > 0 THEN len \div (4 * workers) + 1
    ELSE len \div (4 * workers)

\* chunksize=max(1, sample_size // (workers * 4))
RepChunksize(sample_size, workers) == Max(1, sample_size \div (workers * 4))

Chunksize(p) ==
    IF p.fn = "_check_rep" THEN RepChunksize(p.sample_size, p.workers)
    ELSE MapChunksize(Len(p.texts), p.workers)

NumChunks(p) ==
    IF Len(p.texts) = 0 THEN 0
    ELSE (Len(p.texts) + Chunksize(p) - 1) \div Chunksize(p)

ChunkRows(p, c) ==
    ((c - 1) * Chunksize(p) + 1) .. Min(c * Chunksize(p), Len(p.texts))

\* Mutant: results are taken while chunks are still queued or running.
MapReadyEarly(p) == TRUE

\* p.map returns when every chunk has posted its results.
MapReady(p) == p.done = 1..NumChunks(p)

\* The posted results in row order.
RECURSIVE Collect(_, _, _)
Collect(results, i, n) ==
    IF i > n THEN <<>>
    ELSE (IF i \in DOMAIN results THEN <<results[i]>> ELSE <<>>)
         \o Collect(results, i + 1, n)

\* Counter(langs).items(): the keys in order of first appearance.
RECURSIVE FirstSeen(_, _)
FirstSeen(s, seen) ==
    IF s = <<>> THEN <<>>
    ELSE IF Head(s) \in seen THEN FirstSeen(Tail(s), seen)
    ELSE <<Head(s)>> \o FirstSeen(Tail(s), seen \cup {Head(s)})

Counter(s) ==
    LET keys == FirstSeen(s, {})
    IN  [i \in 1..Len(keys) |->
            <<keys[i], Cardinality({j \in DOMAIN s : s[j] = keys[i]})>>]

\* sorted(..., key=lambda x: x[1], reverse=True): stable, by descending count.
InsertByCount(t, x) ==
    LET k == Cardinality({i \in DOMAIN t : t[i][2] >= x[2]})
    IN  SubSeq(t, 1, k) \o <<x>> \o SubSeq(t, k + 1, Len(t))

RECURSIVE SortByCount(_)
SortByCount(s) ==
    IF s = <<>> THEN <<>>
    ELSE InsertByCount(SortByCount(SubSeq(s, 1, Len(s) - 1)), s[Len(s)])

\* dict(sorted(Counter(langs).items(), ...)) as the sequence of its items.
LangDist(langs) == SortByCount(Counter(langs))

MaxPoolTexts == 5   \* rows handed to one p.map call
MaxWorkers   == 2   \* largest workers argument

PoolTextValues == {"rep", "digits", "nonstr"}

PoolTextLists == UNION {[1..len -> PoolTextValues] : len \in 0..MaxPoolTexts}

InitPool ==
    /\ pc = "pool_call"
    /\ args = MakeArgs(0, [g \in Groups |-> Clean(g)])
    /\ result = NoResult
    /\ est_args = NoEstimateArgs
    /\ est_result = NoEstimate
    /\ run = NotStarted /\ api = NotStarted /\ hist = NotStarted
    /\ insights = NotStarted /\ analysis_cache = NotStarted
    /\ \E fn \in {"detect_lang", "_check_rep"}, texts \in PoolTextLists,
          workers \in 0..MaxWorkers :
         pool = [fn |-> fn, texts |-> texts, workers |-> workers,
                 sample_size |-> Len(texts),
                 next |-> 1, running |-> <<>>, done |-> {}, results |-> <<>>,
                 out |-> <<>>, k |-> 0, lang_dist |-> <<>>, raised |-> "none"]

\* with Pool(workers, ...) as p: p.map(...) puts the chunks on the task queue.
PoolStart ==
    /\ pc = "pool_call"
    /\ IF pool.workers < 1
       THEN /\ pool' = [pool EXCEPT !.raised = "ValueError"]
            /\ pc' = "raise"
       ELSE /\ pool' = [pool EXCEPT !.running = [w \in 1..pool.workers |-> 0]]
            /\ pc' = "pool_running"
    /\ UNCHANGED <<args, result, est_args, est_result, run, api, hist, insights,
               analysis_cache>>

\* An idle worker takes the next chunk of the task queue.
WorkerTake(w) ==
    /\ pc = "pool_running"
    /\ pool.running[w] = 0
    /\ pool.next <= NumChunks(pool)
    /\ pool' = [pool EXCEPT !.running[w] = pool.next, !.next = pool.next + 1]
    /\ UNCHANGED <<pc, args, result, est_args, est_result, run, api, hist, insights,
               analysis_cache>>

\* A worker applies the function to the rows of its chunk and posts the results.
WorkerFinish(w) ==
    /\ pc = "pool_running"
    /\ pool.running[w] # 0
    /\ LET c    == pool.running[w]
           rows == ChunkRows(pool, c)
       IN  pool' = [pool EXCEPT
                      !.running[w] = 0,
                      !.done = pool.done \cup {c},
                      !.results = [i \in DOMAIN pool.results \cup rows |->
                                     IF i \in rows
                                     THEN Classify(pool.fn, pool.texts[i])
                                     ELSE pool.results[i]]]
    /\ UNCHANGED <<pc, args, result, est_args, est_result, run, api, hist, insights,
               analysis_cache>>

\* p.map returns the list of results, or re-raises what a call raised.
PoolJoin ==
    /\ pc = "pool_running"
    /\ MapReady(pool)
    /\ IF /\ pool.fn = "detect_lang"
          /\ \E i \in DOMAIN pool.results : pool.results[i] \in DetectErrors
       THEN /\ pool' = [pool EXCEPT !.raised =
                           pool.results[CHOOSE i \in DOMAIN pool.results :
                               /\ pool.results[i] \in DetectErrors
                               /\ \A j \in DOMAIN pool.results :
                                     pool.results[j] \in DetectErrors => i <= j]]
            /\ pc' = "raise"
       ELSE /\ pool' = [pool EXCEPT
                           !.out = Collect(pool.results, 1, Len(pool.texts))]
            /\ pc' = "pool_joined"
    /\ UNCHANGED <<args, result, est_args, est_result, run, api, hist, insights,
               analysis_cache>>

\* k = sum(counts), or the tally of the languages.
Aggregate ==
    /\ pc = "pool_joined"
    /\ pool' = IF pool.fn = "_check_rep"
               THEN [pool EXCEPT !.k = SumSeq(pool.out)]
               ELSE [pool EXCEPT !.lang_dist = LangDist(pool.out)]
    /\ pc' = "pool_aggregated"
    /\ UNCHANGED <<args, result, est_args, est_result, run, api, hist, insights,
               analysis_cache>>

NextPool ==
    \/ PoolStart
    \/ \E w \in 1..MaxWorkers : w <= pool.workers /\ WorkerTake(w)
    \/ \E w \in 1..MaxWorkers : w <= pool.workers /\ WorkerFinish(w)
    \/ PoolJoin
    \/ Aggregate

SpecPool == InitPool /\ [][NextPool]_vars

(***************************************************************************)
(* Properties of the parallel classification, checked under SpecPool.      *)
(***************************************************************************)
PoolReturned == pc \in {"pool_joined", "pool_aggregated"}

PoolEnded == PoolReturned \/ pc = "raise"

\* C13: a sample row whose classification fails (detect raises, or the row
\* is not a string) yields "unknown" (language) or 0 (repetition flag);
\* every other row still gets its own classification, and the batch ends
\* without raising, with one result per row.
C13_RowFailureIsolated ==
    (PoolEnded /\ pool.workers >= 1) =>
        /\ pc # "raise"
        /\ Len(pool.out) = Len(pool.texts)
        /\ \A i \in 1..Len(pool.texts) :
              IF pool.fn = "detect_lang"
              THEN IF detect(pool.texts[i]) \in DetectErrors
                   THEN pool.out[i] = "unknown"
                   ELSE pool.out[i] = detect(pool.texts[i])
              ELSE IF pool.texts[i] = "rep"
                   THEN pool.out[i] = 1
                   ELSE pool.out[i] = 0

\* A language batch with a string that fails detection, a null and a row
\* that is classified, and a repetition batch with a null and a flagged row.
C13_Witness ==
    /\ PoolReturned
    /\ \E i, j, l \in 1..Len(pool.texts) :
          /\ pool.fn = "detect_lang"
          /\ pool.texts[i] = "digits" /\ pool.out[i] = "unknown"
          /\ pool.texts[j] = "nonstr" /\ pool.out[j] = "unknown"
          /\ pool.texts[l] = "rep" /\ pool.out[l] = "en"
          /\ i < l /\ l < j

\* C14: whatever the number of workers and the chunking, the results are
\* read only after every sample row has been processed by a worker: while
\* chunks are queued or running nothing has been returned or aggregated, and
\* the returned list has one entry per row, the i-th being the result of the
\* i-th row; the sum of flags and the language tally cover every row.
C14_ForkJoin ==
    /\ pc = "pool_running" =>
          pool.out = <<>> /\ pool.k = 0 /\ pool.lang_dist = <<>>
    /\ PoolReturned =>
          /\ pool.done = 1..NumChunks(pool)
          /\ \A w \in 1..pool.workers : pool.running[w] = 0
          /\ DOMAIN pool.results = 1..Len(pool.texts)
          /\ Len(pool.out) = Len(pool.texts)
          /\ \A i \in 1..Len(pool.texts) :
                pool.out[i] = Classify(pool.fn, pool.texts[i])
    /\ (pc = "pool_aggregated" /\ pool.fn = "_check_rep") =>
          pool.k = Cardinality({i \in 1..Len(pool.texts) : pool.texts[i] = "rep"})
    /\ (pc = "pool_aggregated" /\ pool.fn = "detect_lang") =>
          SumSeq([i \in 1..Len(pool.lang_dist) |-> pool.lang_dist[i][2]])
              = Len(pool.texts)

\* Two workers and at least three chunks: the
\* aggregation has run over a complete result list.
C14_Witness ==
    /\ pc = "pool_aggregated"
    /\ pool.workers >= 2
    /\ NumChunks(pool) >= 3
    /\ pool.fn = "_check_rep"
    /\ pool.k >= 2

(***************************************************************************)
(* ---------------------------- run_all_checks --------------------------- *)
(* A dataset is the schema of the parquet file (the set of its columns)    *)
(* and its rows.  A nullable id or token count is <<>> (null) or <<v>>; a  *)
(* null text is "nonstr".  The text values stand for strings with these    *)
(* pattern counts (Pass 2):                                                *)
(*   "rep"     20 characters, 6 of them non-alphabetic                     *)
(*   "plain"   10 characters, 1 non-alphabetic                            *)
(*   "dansk"   10 characters, 2 non-alphabetic, one mojibake sequence      *)
(*   "digits"  a timestamp line: log-like, no alphabetic character         *)
(* non_alpha_ratio, a mean of per-row ratios, is held as the fraction      *)
(* num / den of hundredths.                                                *)
(***************************************************************************)
Columns == {"id", "text", "token_count"}

RowValues ==
    { [id |-> <<"a">>, text |-> "rep",    token_count |-> <<3>>],
      [id |-> <<"b">>, text |-> "dansk",  token_count |-> <<20000>>],
      [id |-> <<"a">>, text |-> "digits", token_count |-> <<7>>],
      [id |-> <<>>,    text |-> "nonstr", token_count |-> <<>>] }

IsNull(row, c) == IF c = "text" THEN row.text = "nonstr" ELSE row[c] = <<>>

\* pl.col(col).null_count()
NullCount(rows, c) == Cardinality({i \in DOMAIN rows : IsNull(rows[i], c)})

\* pl.col(col).n_unique(): a null counts as one value.
NUnique(rows, c) == Cardinality({rows[i][c] : i \in DOMAIN rows})

\* The non-null token counts, in row order.
RECURSIVE TokenCounts(_)
TokenCounts(rows) ==
    IF rows = <<>> THEN <<>>
    ELSE Head(rows).token_count \o TokenCounts(Tail(rows))

InsertAsc(t, x) ==
    LET k == Cardinality({i \in DOMAIN t : t[i] <= x})
    IN  SubSeq(t, 1, k) \o <<x>> \o SubSeq(t, k + 1, Len(t))

RECURSIVE SortAsc(_)
SortAsc(s) ==
    IF s = <<>> THEN <<>> ELSE InsertAsc(SortAsc(Tail(s)), Head(s))

\* min(), max() and quantile(0.99) (nearest rank) of a column: null if it
\* has no value.
ColMin(v) == IF v = <<>> THEN <<>> ELSE <<SortAsc(v)[1]>>
ColMax(v) == IF v = <<>> THEN <<>> ELSE <<SortAsc(v)[Len(v)]>>
ColP99(v) ==
    IF v = <<>> THEN <<>>
    ELSE <<SortAsc(v)[((99 * (Len(v) - 1) + 50) \div 100) + 1]>>

\* Mutant: a missing token-count column is read as a column of nulls.
Pass1NeverRaises(columns) == "none"

\* df.select(num_expr).collect(): polars raises ColumnNotFoundError naming
\* the column when the schema has no token_count_col.
Pass1Raises(columns) ==
    IF "token_count" \in columns THEN "none" ELSE "token_count"

\* num_results of Pass 1.
NumResults(columns, rows) ==
    LET v == IF "token_count" \in columns THEN TokenCounts(rows) ELSE <<>>
    IN  [missing    |-> [c \in columns |-> NullCount(rows, c)],
         unique     |-> [c \in columns |-> NUnique(rows, c)],
         min_tokens |-> ColMin(v),
         max_tokens |-> ColMax(v),
         p99_tokens |-> ColP99(v),
         too_short  |-> Cardinality({i \in DOMAIN v : v[i] < 5}),
         too_long   |-> Cardinality({i \in DOMAIN v : v[i] > 10000})]

\* df.filter(pl.col(token_count_col) > p99_value): no row passes a
\* comparison with null.
AboveP99(columns, rows, p99_value) ==
    LET v == IF "token_count" \in columns THEN TokenCounts(rows) ELSE <<>>
    IN  IF p99_value = <<>> THEN 0
        ELSE Cardinality({i \in DOMAIN v : v[i] > p99_value[1]})

\* What the Pass 2 expressions find in one non-null text.
TextStats(text) ==
    [replacement_char |-> 0,
     mojibake         |-> IF text = "dansk" THEN 1 ELSE 0,
     control_chars    |-> 0,
     html_like        |-> 0,
     code_like        |-> 0,
     log_like         |-> IF text = "digits" THEN 1 ELSE 0,
     non_alpha        |-> CASE text = "rep"   -> 30
                            [] text = "plain" -> 10
                            [] text = "dansk" -> 20
                            [] OTHER          -> 100]

\* The sum of one Pass 2 expression over the non-null texts.
RECURSIVE SumStat(_, _)
SumStat(rows, f) ==
    IF rows = <<>> THEN 0
    ELSE (IF Head(rows).text = "nonstr" THEN 0 ELSE TextStats(Head(rows).text)[f])
         + SumStat(Tail(rows), f)

Pass2Raises(columns) == IF "text" \in columns THEN "none" ELSE "text"

\* str_results of Pass 2; .mean() of no value is null.
StrResults(rows) ==
    LET nonnull == Len(rows) - NullCount(rows, "text")
    IN  [replacement_char |-> SumStat(rows, "replacement_char"),
         mojibake         |-> SumStat(rows, "mojibake"),
         control_chars    |-> SumStat(rows, "control_chars"),
         html_like        |-> SumStat(rows, "html_like"),
         code_like        |-> SumStat(rows, "code_like"),
         log_like         |-> SumStat(rows, "log_like"),
         avg_non_alpha_ratio |->
             IF nonnull = 0 THEN <<>>
             ELSE <<[num |-> SumStat(rows, "non_alpha"), den |-> 100 * nonnull]>>]

\* n = min(total_rows, sample_size)
SampleN(total_rows, sample_size) == Min(total_rows, sample_size)

\* Mutant: the estimator is told the configured sample size.
EstimatorSampleSizeConfigured(n, sample_size) == sample_size

\* sample_size=n of the call of estimate_repetitions_by_sampling.
EstimatorSampleSize(n, sample_size) == n

\* The samples pl.col(text_column).sample(n=n, shuffle=True) can draw: n
\* distinct rows in any order.
Samples(rows, n) ==
    {[i \in 1..n |-> rows[ix[i]].text] :
        ix \in {f \in [1..n -> DOMAIN rows] :
                   \A i, j \in 1..n : i # j => f[i] # f[j]}}

\* p.map(fn, texts) as run_all_checks sees it: the results in row order.
PoolMap(fn, texts) == [i \in 1..Len(texts) |-> Classify(fn, texts[i])]

\* Mutant: int(x) without the "or 0".
IntOrZeroUnguarded(opt) ==
    IF opt = <<>> THEN [raised |-> "TypeError", value |-> 0]
    ELSE [raised |-> "none", value |-> opt[1]]

\* int(x or 0)
IntOrZero(opt) ==
    [raised |-> "none", value |-> IF opt = <<>> THEN 0 ELSE opt[1]]

\* float(x or 0.0), as a fraction.
FloatOrZero(opt) == IF opt = <<>> THEN [num |-> 0, den |-> 1] ELSE opt[1]

NoRaise == [type |-> "none", column |-> "none"]

NoNumResults == NumResults({}, <<>>)

NoBundle == [raised |-> "pending"]

\* output of run_all_checks; a failing int() raises instead.
Bundle(r) ==
    LET mn == IntOrZero(r.num.min_tokens)
        mx == IntOrZero(r.num.max_tokens)
        p  == IntOrZero(r.p99_value)
    IN  [raised |-> IF mn.raised # "none" THEN mn.raised
                    ELSE IF mx.raised # "none" THEN mx.raised
                    ELSE p.raised,
         row_count |-> r.total_rows,
         missing_values |-> r.num.missing,
         column_uniqueness |->
             [id   |-> IF "id" \in r.all_columns
                       THEN r.total_rows - r.num.unique["id"] ELSE 0,
              text |-> r.total_rows - r.num.unique["text"]],
         encoding_issues |->
             [replacement_char |-> r.str.replacement_char,
              mojibake         |-> r.str.mojibake,
              control_chars    |-> r.str.control_chars],
         non_alpha_ratio |-> FloatOrZero(r.str.avg_non_alpha_ratio),
         html_code_log |->
             [html_like |-> r.str.html_like,
              code_like |-> r.str.code_like,
              log_like  |-> r.str.log_like],
         token_outliers |->
             [min_tokens |-> mn.value,
              max_tokens |-> mx.value,
              p99_tokens |-> p.value,
              too_short  |-> r.num.too_short,
              too_long   |-> r.num.too_long,
              above_p99  |-> r.above_p99],
         repetition |-> r.repetition,
         lang_dist  |-> r.lang_dist]

MaxRunRows   == 2   \* rows of the dataset
MaxRunSample == 2   \* largest sample_size argument

Datasets ==
    [columns : {Columns, Columns \ {"id"}, Columns \ {"text"},
                Columns \ {"token_count"}, {"id"}},
     rows    : UNION {[1..len -> RowValues] : len \in 0..MaxRunRows}]

\* The state of a call of run_all_checks(df, sample_size=...) before its
\* first statement; prev is what the previous call on the dataset returned.
RunCall(ds, sample_size, call, prev) ==
    [ds |-> ds, sample_size |-> sample_size, call |-> call, prev |-> prev,
     all_columns |-> {}, total_rows |-> 0,
     num |-> NoNumResults, p99_value |-> <<>>, above_p99 |-> 0,
     str |-> StrResults(<<>>),
     n |-> 0, draws |-> 0, texts |-> <<>>,
     lang_texts |-> <<>>, lang_dist |-> <<>>,
     rep_texts |-> <<>>, repetition |-> NoEstimate,
     output |-> NoBundle, raised |-> NoRaise]

InitRun ==
    /\ pc = "run_call"
    /\ args = MakeArgs(0, [g \in Groups |-> Clean(g)])
    /\ result = NoResult
    /\ est_args = NoEstimateArgs
    /\ est_result = NoEstimate
    /\ pool = NotStarted /\ api = NotStarted /\ hist = NotStarted
    /\ insights = NotStarted /\ analysis_cache = NotStarted
    /\ \E ds \in Datasets, sample_size \in 0..MaxRunSample :
         run = RunCall(ds, sample_size, 1, NoBundle)

OtherThanRun == <<args, result, est_args, est_result, pool, api, hist, insights,
               analysis_cache>>

\* schema = df.collect_schema(); total_rows = df.select(pl.len())...
CollectSchema ==
    /\ pc = "run_call"
    /\ run' = [run EXCEPT !.all_columns = run.ds.columns,
                          !.total_rows = Len(run.ds.rows)]
    /\ pc' = "pass1"
    /\ UNCHANGED OtherThanRun

\* Pass 1: the numeric aggregation and the count of rows above p99.
Pass1 ==
    /\ pc = "pass1"
    /\ IF Pass1Raises(run.all_columns) # "none"
       THEN /\ run' = [run EXCEPT !.raised =
                          [type |-> "ColumnNotFoundError",
                           column |-> Pass1Raises(run.all_columns)]]
            /\ pc' = "raise"
       ELSE /\ LET num == NumResults(run.all_columns, run.ds.rows)
               IN  run' = [run EXCEPT
                             !.num = num,
                             !.p99_value = num.p99_tokens,
                             !.above_p99 = AboveP99(run.all_columns, run.ds.rows,
                                                    num.p99_tokens)]
            /\ pc' = "pass2"
    /\ UNCHANGED OtherThanRun

\* Pass 2: the string aggregation.
Pass2 ==
    /\ pc = "pass2"
    /\ IF Pass2Raises(run.all_columns) # "none"
       THEN /\ run' = [run EXCEPT !.raised =
                          [type |-> "ColumnNotFoundError",
                           column |-> Pass2Raises(run.all_columns)]]
            /\ pc' = "raise"
       ELSE /\ run' = [run EXCEPT !.str = StrResults(run.ds.rows)]
            /\ pc' = "sample"
    /\ UNCHANGED OtherThanRun

\* texts = df.select(pl.col(text_column).sample(n=n, shuffle=True))...
Sample ==
    /\ pc = "sample"
    /\ LET n == SampleN(run.total_rows, run.sample_size)
       IN  \E texts \in Samples(run.ds.rows, n) :
              run' = [run EXCEPT !.n = n, !.texts = texts,
                                 !.draws = run.draws + 1]
    /\ pc' = "languages"
    /\ UNCHANGED OtherThanRun

\* lang_dist = detect_languages_sample(texts, workers=workers)
DetectLanguages ==
    /\ pc = "languages"
    /\ run' = [run EXCEPT
                 !.lang_texts = run.texts,
                 !.lang_dist = LangDist(PoolMap("detect_lang", run.texts))]
    /\ pc' = "repetitions"
    /\ UNCHANGED OtherThanRun

\* repetitions_estimate = estimate_repetitions_by_sampling(texts, total_rows,
\*                                                         sample_size=n, ...)
EstimateRepetitions ==
    /\ pc = "repetitions"
    /\ LET est == estimate_repetitions_by_sampling(
                      run.texts, run.total_rows,
                      EstimatorSampleSize(run.n, run.sample_size))
       IN  /\ run' = [run EXCEPT
                        !.rep_texts = run.texts,
                        !.repetition = est,
                        !.raised = IF est.raised = "none" THEN NoRaise
                                   ELSE [type |-> est.raised, column |-> "none"]]
           /\ pc' = IF est.raised = "none" THEN "assemble" ELSE "raise"
    /\ UNCHANGED OtherThanRun

\* Final result assembly and return.
Assemble ==
    /\ pc = "assemble"
    /\ LET output == Bundle(run)
       IN  IF output.raised # "none"
           THEN /\ run' = [run EXCEPT !.raised =
                              [type |-> output.raised, column |-> "none"]]
                /\ pc' = "raise"
           ELSE /\ run' = [run EXCEPT !.output = output]
                /\ pc' = "done"
    /\ UNCHANGED OtherThanRun

\* The same request again, when no cached response serves it: basic_check
\* calls run_all_checks on the unchanged dataset a second time.
Recompute ==
    /\ pc = "done"
    /\ run.call = 1
    /\ run' = RunCall(run.ds, run.sample_size, 2, run.output)
    /\ pc' = "run_call"
    /\ UNCHANGED OtherThanRun

NextRun ==
    \/ CollectSchema
    \/ Pass1
    \/ Pass2
    \/ Sample
    \/ DetectLanguages
    \/ EstimateRepetitions
    \/ Assemble
    \/ Recompute

SpecRun == InitRun /\ [][NextRun]_vars

(***************************************************************************)
(* Properties of run_all_checks, checked under SpecRun.                    *)
(***************************************************************************)
RunEnded == pc \in {"done", "raise"}

RequiredColumns == {"text", "token_count"}

\* Two bundles with the same content; a lang_dist is compared as a mapping,
\* whatever the order of its keys.
SameBundle(a, b) ==
    /\ [a EXCEPT !.lang_dist = <<>>] = [b EXCEPT !.lang_dist = <<>>]
    /\ {a.lang_dist[i] : i \in DOMAIN a.lang_dist}
         = {b.lang_dist[i] : i \in DOMAIN b.lang_dist}

\* C11: two identical quality requests on an unchanged dataset yield
\* identical results also when the second one is recomputed by
\* run_all_checks: the second call returns what the first returned.
C11_RecomputationDeterministic ==
    (pc = "done" /\ run.call = 2) => SameBundle(run.prev, run.output)

\* C12: in one run the sample is drawn once and has min(total_rows,
\* sample_size) rows; the list passed to the language tally and the list
\* passed to the repetition estimate are that sample, unmodified, and the
\* estimate's n is the length of the sample.
C12_SampleDrawnOnce ==
    /\ pc \in {"run_call", "pass1", "pass2", "sample"} => run.draws = 0
    /\ pc \in {"languages", "repetitions", "assemble", "done"} =>
          /\ run.draws = 1
          /\ Len(run.texts) = Min(Len(run.ds.rows), run.sample_size)
    /\ pc \in {"repetitions", "assemble", "done"} => run.lang_texts = run.texts
    /\ pc \in {"assemble", "done"} =>
          /\ run.rep_texts = run.texts
          /\ run.repetition.sample_n = Len(run.texts)

\* A finished run on a dataset with more rows than the sample size.
C12_Witness ==
    /\ pc = "done"
    /\ run.sample_size >= 1
    /\ Len(run.ds.rows) > run.sample_size
    /\ Len(run.rep_texts) = run.sample_size

\* C15: on a dataset without rows (its required columns present)
\* run_all_checks raises nothing and returns a complete bundle: row_count 0,
\* every count 0, min/max/p99 tokens 0, non_alpha_ratio 0.0, a repetition
\* estimate with n = 0, estimate 0 and interval (0, 0), and an empty lang_dist.
C15_ZeroRowBundle ==
    (RunEnded /\ run.ds.rows = <<>> /\ RequiredColumns \subseteq run.ds.columns) =>
        /\ pc = "done"
        /\ run.raised = NoRaise
        /\ run.output.row_count = 0
        /\ DOMAIN run.output.missing_values = run.ds.columns
        /\ \A c \in run.ds.columns : run.output.missing_values[c] = 0
        /\ run.output.column_uniqueness = [id |-> 0, text |-> 0]
        /\ run.output.encoding_issues =
              [replacement_char |-> 0, mojibake |-> 0, control_chars |-> 0]
        /\ run.output.html_code_log =
              [html_like |-> 0, code_like |-> 0, log_like |-> 0]
        /\ run.output.token_outliers =
              [min_tokens |-> 0, max_tokens |-> 0, p99_tokens |-> 0,
               too_short |-> 0, too_long |-> 0, above_p99 |-> 0]
        /\ run.output.non_alpha_ratio.num = 0
        /\ run.output.repetition.raised = "none"
        /\ run.output.repetition.sample_n = 0
        /\ run.output.repetition.sample_count = 0
        /\ run.output.repetition.estimate_total = 0
        /\ run.output.repetition.ci_total = <<0, 0>>
        /\ run.output.lang_dist = <<>>

\* A returned bundle of a zero-row dataset asked for a sample of two rows.
C15_Witness ==
    /\ pc = "done"
    /\ run.ds.rows = <<>>
    /\ run.ds.columns = Columns
    /\ run.sample_size = 2
    /\ run.output.row_count = 0

\* C16: on a dataset that lacks the text column or the token-count column
\* run_all_checks ends in an error naming a missing required column and
\* returns no bundle; when only the id column is absent the run returns
\* and the id duplicate count is 0.
C16_MissingColumnFails ==
    /\ ~(RequiredColumns \subseteq run.ds.columns) =>
          /\ run.output = NoBundle
          /\ pc # "done"
          /\ RunEnded =>
                /\ run.raised.type = "ColumnNotFoundError"
                /\ run.raised.column \in RequiredColumns \ run.ds.columns
    /\ (RunEnded /\ RequiredColumns \subseteq run.ds.columns) =>
          /\ pc = "done"
          /\ "id" \notin run.ds.columns => run.output.column_uniqueness.id = 0

\* A run over a non-empty dataset without token counts has failed.
C16_Witness ==
    /\ pc = "raise"
    /\ run.ds.columns = Columns \ {"token_count"}
    /\ run.ds.rows # <<>>
    /\ run.raised = [type |-> "ColumnNotFoundError", column |-> "token_count"]

(***************************************************************************)
(* ------------------------------ endpoints ------------------------------ *)
(* The analysis endpoint (api/analysis.py) and the plot endpoint           *)
(* (api/plots.py) over the dataset registry (services/indexing.py), the    *)
(* files on disk and the TTL cache (core/cache.py).  A handler runs to its *)
(* end without yielding: its awaits are of an uncontended asyncio.Lock and *)
(* of calls that do not suspend.  The endpoint awaits get_parquet_file_path*)
(* and calls compute_request_hash; the first is modelled by its body in    *)
(* services/analysis.py, the second, which the sources do not hold, as a   *)
(* one-to-one function of the request.  Time is in seconds.                *)
(***************************************************************************)
CACHE_TTL_SECONDS == 600

\* indexing.get_dataset_by_slug(slug): is the slug in the registry?
get_dataset_by_slug(registry, slug) == slug \in registry

\* services.analysis.get_parquet_file_path: the path, or ValueError.
get_parquet_file_path(registry, req) ==
    IF ~get_dataset_by_slug(registry, req.dataset)
    THEN [raised |-> "ValueError",
          path |-> <<"none", "none", "none">>]
    ELSE [raised |-> "none",
          path |-> <<req.dataset, req.variant, req.version>>]

\* except ValueError -> 404; except Exception -> 500.  HTTPException is an
\* Exception and not a ValueError.
HandleRaised(raised) ==
    CASE raised = "ValueError" -> 404
      [] OTHER                 -> 500

\* compute_request_hash(request)
compute_request_hash(req) == req

\* Cache._is_expired
\* Mutant: an entry expires when its age reaches the TTL.
IsExpiredAtTtl(timestamp, now) == (now - timestamp) >= CACHE_TTL_SECONDS
IsExpired(timestamp, now) == (now - timestamp) > CACHE_TTL_SECONDS

\* Cache.get: the value when present and not expired, and the cache
\* after the call (an expired entry is deleted).
CacheGet(cache, key, now) ==
    IF key \notin DOMAIN cache THEN [hit |-> FALSE, cache |-> cache]
    ELSE IF IsExpired(cache[key].timestamp, now)
    THEN [hit |-> FALSE,
          cache |-> [k \in DOMAIN cache \ {key} |-> cache[k]]]
    ELSE [hit |-> TRUE, cache |-> cache]

\* Cache.set
CacheSet(cache, key, value, now) ==
    [k \in DOMAIN cache \cup {key} |->
        IF k = key THEN [value |-> value, timestamp |-> now] ELSE cache[k]]

\* services.analysis.run_analysis_on_file, by the file it reads.
AnalysisResult(path) == [columns |-> path]

\* run_analysis_endpoint: the response and the cache after the handler.
run_analysis_endpoint(a, req) ==
    LET key      == compute_request_hash(req)
        got      == CacheGet(a.cache, key, a.now)
        resolved == get_parquet_file_path(a.registry, req)
    IN  IF got.hit
        THEN [status |-> 200, body |-> got.cache[key].value,
              ran |-> FALSE, cache |-> got.cache]
        ELSE IF resolved.raised # "none"
        THEN [status |-> HandleRaised(resolved.raised),
              body |-> AnalysisResult(<<"none", "none", "none">>),
              ran |-> FALSE, cache |-> got.cache]
        ELSE IF resolved.path \notin a.files
        THEN [status |-> HandleRaised("HTTPException404"),
              body |-> AnalysisResult(<<"none", "none", "none">>),
              ran |-> FALSE, cache |-> got.cache]
        ELSE [status |-> 200, body |-> AnalysisResult(resolved.path),
              ran |-> TRUE,
              cache |-> CacheSet(got.cache, key,
                                 AnalysisResult(resolved.path), a.now)]

\* generate_plot_endpoint: the response; it does not touch the cache.
generate_plot_endpoint(a, req) ==
    LET resolved == get_parquet_file_path(a.registry, req)
    IN  IF req.operations # 1
        THEN [status |-> 400, body |-> AnalysisResult(<<"none", "none", "none">>),
              ran |-> FALSE, cache |-> a.cache]
        ELSE IF resolved.raised # "none"
        THEN [status |-> HandleRaised(resolved.raised),
              body |-> AnalysisResult(<<"none", "none", "none">>),
              ran |-> FALSE, cache |-> a.cache]
        ELSE IF resolved.path \notin a.files
        THEN [status |-> HandleRaised("HTTPException404"),
              body |-> AnalysisResult(<<"none", "none", "none">>),
              ran |-> FALSE, cache |-> a.cache]
        ELSE [status |-> 200, body |-> AnalysisResult(resolved.path),
              ran |-> TRUE, cache |-> a.cache]

MaxRequests == 2   \* requests handled in one behaviour
MaxTicks    == 3   \* the clock advances this many times

TickSeconds == CACHE_TTL_SECONDS \div 2

\* The registry holds dataset "ds"; of its versions only v1 has a file.
Registry == {"ds"}
Files    == {<<"ds", "original", "v1">>}

Requests ==
    [endpoint : {"analysis", "plot"}, dataset : {"ds", "nope"},
     variant : {"original"}, version : {"v1", "v2"}, operations : {1, 2}]

InitApi ==
    /\ pc = "serving"
    /\ args = MakeArgs(0, [g \in Groups |-> Clean(g)])
    /\ result = NoResult
    /\ est_args = NoEstimateArgs
    /\ est_result = NoEstimate
    /\ pool = NotStarted /\ run = NotStarted /\ hist = NotStarted
    /\ insights = NotStarted /\ analysis_cache = NotStarted
    /\ api = [registry |-> Registry, files |-> Files, cache |-> <<>>,
              now |-> 0, log |-> <<>>]

OtherThanApi == <<pc, args, result, est_args, est_result, pool, run, hist, insights,
               analysis_cache>>

Handled(a, req, resp) ==
    [a EXCEPT !.cache = resp.cache,
              !.log = Append(a.log, [req |-> req, status |-> resp.status,
                                     body |-> resp.body, ran |-> resp.ran])]

\* POST /run
AnalysisRequest(req) ==
    /\ req.endpoint = "analysis"
    /\ Len(api.log) < MaxRequests
    /\ api' = Handled(api, req, run_analysis_endpoint(api, req))
    /\ UNCHANGED OtherThanApi

\* POST / of the plots router
PlotRequest(req) ==
    /\ req.endpoint = "plot"
    /\ Len(api.log) < MaxRequests
    /\ api' = Handled(api, req, generate_plot_endpoint(api, req))
    /\ UNCHANGED OtherThanApi

\* time.time() advances.
Tick ==
    /\ api.now < MaxTicks * TickSeconds
    /\ api' = [api EXCEPT !.now = api.now + TickSeconds]
    /\ UNCHANGED OtherThanApi

NextApi ==
    \/ \E req \in Requests : AnalysisRequest(req)
    \/ \E req \in Requests : PlotRequest(req)
    \/ Tick

SpecApi == InitApi /\ [][NextApi]_vars

(***************************************************************************)
(* Properties of the endpoints, checked under SpecApi.                     *)
(***************************************************************************)
\* Does the request's triple name a file that exists?
Resolves(a, req) ==
    /\ req.dataset \in a.registry
    /\ <<req.dataset, req.variant, req.version>> \in a.files

\* C17: a request whose (dataset, variant, version) does not resolve to an
\* existing parquet file is answered 404, whether the slug is unknown or the
\* file is missing; no analysis runs for it and the cache holds no entry
\* for it.
C17_UnresolvedIsNotFound ==
    \A i \in DOMAIN api.log :
        (/\ api.log[i].req.endpoint = "plot" => api.log[i].req.operations = 1
         /\ ~Resolves(api, api.log[i].req)) =>
            /\ api.log[i].status = 404
            /\ ~api.log[i].ran
            /\ compute_request_hash(api.log[i].req) \notin DOMAIN api.cache
(***************************************************************************)
(* services/plotting.py  generate_plot_spec: the histogram of a column.    *)
(*                                                                         *)
(* The model holds the data frame the chart is drawn from: one row per     *)
(* bin with its count, bin_left, bin_right and bin_width.  The axis ticks, *)
(* bin_center and the Altair encoding (lines 92-155) are computed from     *)
(* that frame and leave it as it is.                                       *)
(*                                                                         *)
(* Number representation.  An edge of np.logspace is irrational in         *)
(* general, so a float of the frame is held as a formal sum of atoms:      *)
(* atom i >= 0 is the bin edge number i, atom -1 is the constant 1.0 that  *)
(* safe_float puts in place of "-inf".  Comparisons of a whole number v    *)
(* with edge i are exact: with n edges, edge i to the power n - 1 is       *)
(* min^(n-1-i) * max^i.                                                    *)
(***************************************************************************)
MaxBins     == 4   \* operation["bins"] ranges over 1..MaxBins
MaxHistRows == 7   \* the dataset is any subset of this many rows

Atoms  == -1 .. MaxBins
OneAtom == -1

RECURSIVE Pow(_, _)
Pow(b, e) == IF e = 0 THEN 1 ELSE b * Pow(b, e - 1)

IsPowerOfTwo(x) == \E e \in 0 .. 16 : x = Pow(2, e)
Log2Whole(x)    == CHOOSE e \in 0 .. 16 : x = Pow(2, e)

\* Floats of the data frame.
ZeroCoef     == [a \in Atoms |-> 0]
AtomNum(a)   == [nan |-> FALSE, inf |-> FALSE, c |-> [ZeroCoef EXCEPT ![a] = 1]]
InfNum       == [nan |-> FALSE, inf |-> TRUE, c |-> ZeroCoef]
NaN          == [nan |-> TRUE, inf |-> FALSE, c |-> ZeroCoef]
IsFinite(x)  == ~x.nan /\ ~x.inf
NumAdd(x, y) ==
    IF x.nan \/ y.nan THEN NaN
    ELSE IF x.inf \/ y.inf THEN InfNum
    ELSE [nan |-> FALSE, inf |-> FALSE, c |-> [a \in Atoms |-> x.c[a] + y.c[a]]]
NumSub(x, y) ==
    IF x.nan \/ y.nan THEN NaN
    ELSE IF x.inf \/ y.inf THEN InfNum
    ELSE [nan |-> FALSE, inf |-> FALSE, c |-> [a \in Atoms |-> x.c[a] - y.c[a]]]

\* Rows of the parquet file: nullable whole numbers in two numeric columns.
HistColumns == {"token_count", "length"}
HistRowAt(k) ==
    CASE k = 1 -> [id |-> k, token_count |-> <<1>>, length |-> <<3>>]
      [] k = 2 -> [id |-> k, token_count |-> <<2>>, length |-> <<>>]
      [] k = 3 -> [id |-> k, token_count |-> <<4>>, length |-> <<2>>]
      [] k = 4 -> [id |-> k, token_count |-> <<4>>, length |-> <<4>>]
      [] k = 5 -> [id |-> k, token_count |-> <<>>, length |-> <<2>>]
      [] k = 6 -> [id |-> k, token_count |-> <<5>>, length |-> <<0>>]
      [] k = 7 -> [id |-> k, token_count |-> <<3>>, length |-> <<5>>]
      [] OTHER -> [id |-> k, token_count |-> <<k>>, length |-> <<k>>]
HistDatasets == SUBSET {HistRowAt(k) : k \in 1 .. MaxHistRows}

\* The non-null values of a column, and lf.select(column).min() / .max():
\* <<>> is Python's None.
NonNull(rows, column) == {r \in rows : r[column] # <<>>}
ColumnValues(rows, column) == {r[column][1] : r \in NonNull(rows, column)}
min_val(rows, column) ==
    LET V == ColumnValues(rows, column)
    IN  IF V = {} THEN <<>> ELSE <<CHOOSE v \in V : \A u \in V : v <= u>>
max_val(rows, column) ==
    LET V == ColumnValues(rows, column)
    IN  IF V = {} THEN <<>> ELSE <<CHOOSE v \in V : \A u \in V : v >= u>>

\* Lines 36-48, everything generate_plot_spec checks before it bins.
ValidateNegativeOnly(column, rows) ==
    IF column = "" THEN "ValueError"
    ELSE IF column \notin HistColumns THEN "ColumnNotFoundError"
    ELSE IF min_val(rows, column) = <<>> \/ max_val(rows, column) = <<>>
            \/ min_val(rows, column)[1] < 0
    THEN "ValueError"
    ELSE "none"
Validate(column, rows) ==
    IF column = "" THEN "ValueError"
    ELSE IF column \notin HistColumns THEN "ColumnNotFoundError"
    ELSE IF min_val(rows, column) = <<>> \/ max_val(rows, column) = <<>>
            \/ min_val(rows, column)[1] <= 0
    THEN "ValueError"
    ELSE "none"

\* np.logspace(log2(min), log2(max), n, base=2): sign of v - edge i, exactly.
EdgePow(h, i) == Pow(h.min_val[1], h.n_bins - 1 - i) * Pow(h.max_val[1], i)
CmpExact(h, v, i) ==
    IF h.n_bins = 1 THEN Sign(v - h.min_val[1])
    ELSE Sign(Pow(v, h.n_bins - 1) - EdgePow(h, i))

\* An edge the floating-point computation yields exactly: the exponent is
\* a whole number (2.0 ** k is exact).  linspace returns its two ends as
\* given, and a point in between is exact for whole ends and a whole step.
IsExactEdge(h, i) ==
    IF i = 0 THEN IsPowerOfTwo(h.min_val[1])
    ELSE IF i = h.n_bins - 1 THEN IsPowerOfTwo(h.max_val[1])
    ELSE /\ IsPowerOfTwo(h.min_val[1])
         /\ IsPowerOfTwo(h.max_val[1])
         /\ (Log2Whole(h.max_val[1]) - Log2Whole(h.min_val[1]))
                % (h.n_bins - 1) = 0

\* The edges whose rounding a whole number can observe: the exact value is
\* a whole number and the float may fall just below it.
IsWholeEdge(h, i) == \E v \in 1 .. h.max_val[1] : CmpExact(h, v, i) = 0
RoundableEdges(h) ==
    {i \in 0 .. h.n_bins - 1 : IsWholeEdge(h, i) /\ ~IsExactEdge(h, i)}

\* v > bin_edges[i] in floats; h.below holds the edges rounded down.
AboveEdge(h, v, i) ==
    \/ CmpExact(h, v, i) > 0
    \/ CmpExact(h, v, i) = 0 /\ i \in h.below

\* Are the breaks given to cut all different?  Distinct exact values stay
\* distinct after rounding.
BreaksUnique(h) == h.n_bins = 1 \/ h.min_val[1] < h.max_val[1]

\* Series.cut(breaks): the n + 1 right-closed intervals (-inf, e0],
\* (e0, e1], ..., (e_last, inf]; interval j holds v when exactly j breaks
\* lie below v.  A null value stays null.
CutIndex(h, v) == Cardinality({i \in 0 .. h.n_bins - 1 : AboveEdge(h, v, i)})
NullBin == -1
BinOf(h, r) ==
    IF r.token_count = <<>> THEN NullBin ELSE CutIndex(h, r.token_count[1])

\* group_by("bin").agg(count): one row per bin that holds a row, then
\* sort("bin") (nulls first).
BinsPresent(h) == {BinOf(h, r) : r \in h.rows}
BinCount(h, j) == Cardinality({r \in h.rows : BinOf(h, r) = j})
RECURSIVE BinnedFrom(_, _)
BinnedFrom(h, j) ==
    IF j > h.n_bins THEN <<>>
    ELSE IF j \in BinsPresent(h)
    THEN <<[bin |-> j, count |-> BinCount(h, j)]>> \o BinnedFrom(h, j + 1)
    ELSE BinnedFrom(h, j + 1)
Binned(h) == BinnedFrom(h, NullBin)

\* The label of interval j as cut writes it: its two ends.
MinusInf == -2
PlusInf  == -3
IntervalLabel(h, j) ==
    [left  |-> IF j = 0 THEN MinusInf ELSE j - 1,
     right |-> IF j = h.n_bins THEN PlusInf ELSE j]

\* parse_bin_interval and its safe_float: "-inf" reads as 1.
safe_float(val) ==
    IF val = MinusInf THEN AtomNum(OneAtom)
    ELSE IF val = PlusInf THEN InfNum
    ELSE AtomNum(val)
parse_bin_interval(interval_str, side) ==
    IF side = "left" THEN safe_float(interval_str.left)
    ELSE safe_float(interval_str.right)

\* df["bin"].apply(...) leaves a missing bin as NaN.
ParseBin(h, j, side) ==
    IF j = NullBin THEN NaN ELSE parse_bin_interval(IntervalLabel(h, j), side)

\* Sign of atom a - atom b.  The edges are increasing and edge 0 is the
\* column minimum, a whole number >= 1 (2.0 ** log2(1) is exactly 1.0).
AtomCmp(h, a, b) ==
    IF a = b THEN 0
    ELSE IF a = OneAtom
    THEN (IF b = 0 THEN Sign(1 - h.min_val[1]) ELSE -1)
    ELSE IF b = OneAtom
    THEN (IF a = 0 THEN Sign(h.min_val[1] - 1) ELSE 1)
    ELSE Sign(a - b)

\* Sign of a finite float of the frame.
NumSign(h, x) ==
    LET pos == {a \in Atoms : x.c[a] > 0}
        neg == {a \in Atoms : x.c[a] < 0}
    IN  CASE pos = {} /\ neg = {} -> 0
          [] pos # {} /\ neg = {} -> 1
          [] pos = {} /\ neg # {} -> -1
          [] /\ Cardinality(pos) = 1 /\ Cardinality(neg) = 1
             /\ \A a \in pos : x.c[a] = 1
             /\ \A a \in neg : x.c[a] = -1
             -> AtomCmp(h, CHOOSE a \in pos : TRUE, CHOOSE b \in neg : TRUE)

\* Lines 64-77: to_pandas, bin_left, bin_right, sort_values("bin_left") and
\* bin_width.  sort_values puts NaN last; its default quicksort leaves the
\* order of two equal keys open, which `swap` decides.
FrameRow(h, b) ==
    LET left  == ParseBin(h, b.bin, "left")
        right == ParseBin(h, b.bin, "right")
    IN  [bin |-> b.bin, count |-> b.count, bin_left |-> left,
         bin_right |-> right, bin_width |-> NumSub(right, left)]
SwapFirstTwo(s) == <<s[2], s[1]>> \o SubSeq(s, 3, Len(s))
LeftTie(h, s) ==
    /\ Len(s) >= 2
    /\ NumSign(h, NumSub(s[1].bin_left, s[2].bin_left)) = 0
ParsedFrame(h, swap) ==
    LET rows   == [i \in 1 .. Len(h.binned) |-> FrameRow(h, h.binned[i])]
        known  == SelectSeq(rows, LAMBDA r : r.bin # NullBin)
        sorted == IF swap /\ LeftTie(h, known) THEN SwapFirstTwo(known)
                  ELSE known
    IN  sorted \o SelectSeq(rows, LAMBDA r : r.bin = NullBin)

\* Lines 81-90: the infinite width and right edge are replaced.
inf_mask(df) == {i \in 1 .. Len(df) : df[i].bin_width.inf}
prev_width(df) ==
    IF Len(df) > 1
    THEN LET finite == SelectSeq(df, LAMBDA r : ~r.bin_width.inf)
         IN  finite[Len(finite)].bin_width
    ELSE df[Len(df)].bin_left
FixInfinite(df) ==
    IF inf_mask(df) = {} THEN df
    ELSE [i \in 1 .. Len(df) |->
            IF i \in inf_mask(df)
            THEN [df[i] EXCEPT
                    !.bin_width = prev_width(df),
                    !.bin_right = NumAdd(df[Len(df)].bin_left, prev_width(df))]
            ELSE df[i]]

\* One call generate_plot_spec(file_path, operation).
HistRequestColumns == HistColumns \cup {"words", ""}
HistCall(rows, column, n_bins) ==
    [rows |-> rows, column |-> column, n_bins |-> n_bins,
     min_val |-> <<>>, max_val |-> <<>>, below |-> {},
     binned |-> <<>>, df |-> <<>>, raised |-> "none"]

InitHistogram ==
    /\ pc = "plot_call"
    /\ args = MakeArgs(0, [g \in Groups |-> Clean(g)])
    /\ result = NoResult
    /\ est_args = NoEstimateArgs
    /\ est_result = NoEstimate
    /\ pool = NotStarted /\ run = NotStarted /\ api = NotStarted
    /\ insights = NotStarted /\ analysis_cache = NotStarted
    /\ \E rows \in HistDatasets, column \in HistRequestColumns,
          n_bins \in 1 .. MaxBins :
          hist = HistCall(rows, column, n_bins)

OtherThanHist ==
    <<args, result, est_args, est_result, pool, run, api, insights,
      analysis_cache>>

\* Lines 36-48: the column and its range are checked.
ReadRange ==
    /\ pc = "plot_call"
    /\ IF Validate(hist.column, hist.rows) # "none"
       THEN /\ hist' = [hist EXCEPT !.raised = Validate(hist.column, hist.rows)]
            /\ pc' = "plot_raised"
       ELSE /\ hist' = [hist EXCEPT
                          !.min_val = min_val(hist.rows, hist.column),
                          !.max_val = max_val(hist.rows, hist.column)]
            /\ pc' = "plot_edges"
    /\ UNCHANGED OtherThanHist

\* Line 51: the edges, each rounded one way or the other.
ComputeEdges ==
    /\ pc = "plot_edges"
    /\ \E below \in SUBSET RoundableEdges(hist) :
          hist' = [hist EXCEPT !.below = below]
    /\ pc' = "plot_binning"
    /\ UNCHANGED OtherThanHist

\* Lines 54-61: token_count is cut at the edges and counted per bin.
BinAndCount ==
    /\ pc = "plot_binning"
    /\ IF ~BreaksUnique(hist)
       THEN /\ hist' = [hist EXCEPT !.raised = "DuplicateError"]
            /\ pc' = "plot_raised"
       ELSE /\ hist' = [hist EXCEPT !.binned = Binned(hist)]
            /\ pc' = "plot_parse"
    /\ UNCHANGED OtherThanHist

\* Lines 64-77.
ParseBins ==
    /\ pc = "plot_parse"
    /\ \E swap \in BOOLEAN :
          hist' = [hist EXCEPT !.df = ParsedFrame(hist, swap)]
    /\ pc' = "plot_widths"
    /\ UNCHANGED OtherThanHist

\* Lines 81-90, after which the chart is built from df.
FixWidths ==
    /\ pc = "plot_widths"
    /\ hist' = [hist EXCEPT !.df = FixInfinite(hist.df)]
    /\ pc' = "plot_done"
    /\ UNCHANGED OtherThanHist

NextHistogram ==
    \/ ReadRange
    \/ ComputeEdges
    \/ BinAndCount
    \/ ParseBins
    \/ FixWidths

SpecHistogram == InitHistogram /\ [][NextHistogram]_vars

(***************************************************************************)
(* Properties of generate_plot_spec.                                       *)
(***************************************************************************)
PlotEnded == pc \in {"plot_done", "plot_raised"}

RECURSIVE SumCounts(_)
SumCounts(df) == IF df = <<>> THEN 0 ELSE Head(df).count + SumCounts(Tail(df))

\* The non-null positive values of the requested column, one per row.
PositiveValues(rows, column) ==
    Cardinality({r \in NonNull(rows, column) : r[column][1] > 0})

\* C18: the per-bin counts of the histogram sum to the number of non-null
\* positive values of the requested column; null rows and the values of
\* another column are not counted.
C18_CountsSumToColumnValues ==
    pc = "plot_done" =>
        SumCounts(hist.df) = PositiveValues(hist.rows, hist.column)

\* The log-2-spaced edges between the minimum and the maximum, compared
\* exactly: edge i is below edge j.
EdgeBelow(h, i, j) ==
    IF h.n_bins = 1 THEN FALSE ELSE EdgePow(h, i) < EdgePow(h, j)

\* C19: for every valid input (0 < min <= max) and every requested n_bins
\* the call returns a histogram of n_bins bins, and the edges between the
\* minimum and the maximum are strictly increasing.
C19_RequestedBins ==
    (PlotEnded /\ Validate(hist.column, hist.rows) = "none") =>
        /\ pc = "plot_done"
        /\ Len(hist.df) = hist.n_bins
        /\ \A i, j \in 0 .. hist.n_bins - 1 : i < j => EdgeBelow(hist, i, j)

\* C20: every bin of the output has a finite left edge, right edge and
\* width, with left < right and a positive width; the interval open to the
\* right has the width of the bin before it and right = left + width.
C20_BinsFiniteAndPositive ==
    pc = "plot_done" =>
        \A i \in 1 .. Len(hist.df) :
            LET r == hist.df[i]
            IN  /\ IsFinite(r.bin_left)
                /\ IsFinite(r.bin_right)
                /\ IsFinite(r.bin_width)
                /\ NumSign(hist, NumSub(r.bin_right, r.bin_left)) > 0
                /\ NumSign(hist, r.bin_width) > 0
                /\ r.bin = hist.n_bins =>
                      /\ i > 1 => r.bin_width = hist.df[i - 1].bin_width
                      /\ r.bin_right = NumAdd(r.bin_left, r.bin_width)

\* The requested column is one the histogram cannot be drawn from: it has
\* no non-null value, or its minimum or its maximum is <= 0.
NoValidValues(rows, column) ==
    \/ ColumnValues(rows, column) = {}
    \/ \E v \in ColumnValues(rows, column) :
          \A u \in ColumnValues(rows, column) : v <= u /\ v <= 0
    \/ \E v \in ColumnValues(rows, column) :
          \A u \in ColumnValues(rows, column) : v >= u /\ v <= 0

\* C21: for a column of the file with no non-null value, or with a minimum
\* or a maximum <= 0, generate_plot_spec raises its ValueError before any
\* edge is computed or any row is binned, and never returns a histogram.
C21_InvalidColumnFailsFirst ==
    (/\ hist.column \in HistColumns
     /\ NoValidValues(hist.rows, hist.column)
     /\ pc # "plot_call") =>
        /\ pc = "plot_raised"
        /\ hist.raised = "ValueError"
        /\ hist.min_val = <<>> /\ hist.max_val = <<>>
        /\ hist.binned = <<>>
        /\ hist.df = <<>>

C21_Witness ==
    /\ pc = "plot_raised"
    /\ hist.raised = "ValueError"
    /\ hist.column = "length"
    /\ 0 \in ColumnValues(hist.rows, "length")
    /\ \E v \in ColumnValues(hist.rows, "length") : v > 0
    /\ \A r \in hist.rows : r.token_count # <<>>

(***************************************************************************)
(* services/quality.py  get_quality_insights.                              *)
(*                                                                         *)
(* An entry of "issues", "strengths" or "recommendations" is held as the   *)
(* name of the dimension its text is about: "dup" for "Duplicates: ..."    *)
(* and "No duplicate records found", "missing", "encoding", "non_alpha"    *)
(* ("Text quality: ..."), "repetition" and "lang"; "no_data" is "No data   *)
(* to analyze".  The rates are compared as in the scorer.                  *)
(***************************************************************************)
AppendIf(cond, entry) == IF cond THEN <<entry>> ELSE <<>>

\* max([cnt / total_rows ...], default=0) > 0.10, and == 0.
MaxMissingOverTenth(a) ==
    \E c \in DOMAIN a.missing_value_count :
        a.missing_value_count[c] * 100 > 10 * a.total_rows
MaxMissingZero(a) ==
    \A c \in DOMAIN a.missing_value_count : a.missing_value_count[c] = 0

InsightIssues(a) ==
    LET dup_bad        == a.duplicate_ids + a.duplicate_texts
        encoding_total == a.encoding_issues.replacement_char
                          + a.encoding_issues.mojibake
                          + a.encoding_issues.control_chars
    IN  AppendIf(dup_bad * 100 > 1 * a.total_rows, "dup")
        \o AppendIf(MaxMissingOverTenth(a), "missing")
        \o AppendIf(encoding_total * 100 > 5 * a.total_rows, "encoding")
        \o AppendIf(a.non_alpha_ratio > 30, "non_alpha")
        \o AppendIf(a.repetition * 100 > 2 * a.total_rows, "repetition")
        \o AppendIf(Len(a.lang_dist) > 2, "lang")

InsightStrengths(a) ==
    LET dup_bad == a.duplicate_ids + a.duplicate_texts
    IN  AppendIf(~(dup_bad * 100 > 1 * a.total_rows) /\ dup_bad = 0, "dup")
        \o AppendIf(~MaxMissingOverTenth(a) /\ MaxMissingZero(a), "missing")
        \o AppendIf(~(a.non_alpha_ratio > 30) /\ a.non_alpha_ratio < 10,
                    "non_alpha")
        \o AppendIf(~(Len(a.lang_dist) > 2) /\ Len(a.lang_dist) = 1, "lang")

get_quality_insights(score, a) ==
    IF a.total_rows = 0
    THEN [score |-> score, total_rows |-> a.total_rows,
          issues |-> <<"no_data">>, strengths |-> <<>>,
          recommendations |-> <<>>]
    ELSE [score |-> score, total_rows |-> a.total_rows,
          issues |-> InsightIssues(a), strengths |-> InsightStrengths(a),
          recommendations |-> InsightIssues(a)]

\* What the scorer subtracts for the dimension an entry is about.
DimensionPenalty(d, a) ==
    CASE d = "dup"        -> DuplicatePenalty(a)
      [] d = "missing"    -> MissingPenalty(a)
      [] d = "encoding"   -> EncodingPenalty(a)
      [] d = "non_alpha"  -> NonAlphaPenalty(a)
      [] d = "repetition" -> RepetitionPenalty(a)
      [] d = "lang"       -> LanguagePenalty(a)

\* The scorer's grid, with a distribution of three languages of which one
\* holds nearly every document.
InsightsGrid(g) ==
    IF g = "lang" THEN Grid(g) \cup {<<22, 1, 1>>} ELSE Grid(g)

NoInsights ==
    [score |-> -1, total_rows |-> 0, issues |-> <<>>, strengths |-> <<>>,
     recommendations |-> <<>>]

InitInsights ==
    /\ pc = "call"
    /\ result = NoResult
    /\ est_args = NoEstimateArgs
    /\ est_result = NoEstimate
    /\ pool = NotStarted /\ run = NotStarted
    /\ api = NotStarted /\ hist = NotStarted
    /\ analysis_cache = NotStarted
    /\ insights = NoInsights
    /\ \E n \in RowsGrid, focus \in Groups, worst \in SUBSET Groups :
         \E x \in InsightsGrid(focus) :
            args = MakeArgs(n, [g \in Groups |->
                                  IF g = focus THEN x
                                  ELSE IF g \in worst THEN Worst(g)
                                  ELSE Clean(g)])

\* get_quality_insights(score, ...) called with the score just derived.
Insights ==
    /\ pc = "return"
    /\ insights' = get_quality_insights(result.score, args)
    /\ pc' = "insights"
    /\ UNCHANGED <<args, result, est_args, est_result, pool, run, api, hist,
                   analysis_cache>>

NextInsights ==
    \/ Derive
    \/ Insights

SpecInsights == InitInsights /\ [][NextInsights]_vars

Entries(s) == {s[i] : i \in 1 .. Len(s)}

\* C22: for total_rows > 0 a dimension is reported as an issue only if the
\* scorer subtracts a nonzero penalty for it, as a strength only if the
\* scorer subtracts nothing for it, and never as both.
C22_InsightsFollowPenalties ==
    (pc = "insights" /\ args.total_rows > 0) =>
        /\ \A d \in Entries(insights.issues) : DimensionPenalty(d, args) > 0
        /\ \A d \in Entries(insights.strengths) : DimensionPenalty(d, args) = 0
        /\ Entries(insights.issues) \cap Entries(insights.strengths) = {}

(***************************************************************************)
(* core/cache.py  Cache: the calls get, set, has, delete, clear and        *)
(* cleanup_expired on one cache.  Every method body runs under the lock    *)
(* and awaits nothing while it holds it, so a call is one step and the     *)
(* calls of concurrent tasks happen in some order.                         *)
(***************************************************************************)
\* Cache.has: like get, without the value.
CacheHas(store, key, now) ==
    IF key \notin DOMAIN store THEN [found |-> FALSE, cache |-> store]
    ELSE IF IsExpired(store[key].timestamp, now)
    THEN [found |-> FALSE,
          cache |-> [k \in DOMAIN store \ {key} |-> store[k]]]
    ELSE [found |-> TRUE, cache |-> store]

\* Cache.delete: self._cache.pop(key, None)
CacheDelete(store, key) == [k \in DOMAIN store \ {key} |-> store[k]]

\* Cache.clear
CacheClear(store) == <<>>

\* Cache.cleanup_expired: the expired keys are listed, then deleted.
CleanupExpired(store, now) ==
    LET expired_keys ==
            {k \in DOMAIN store : IsExpired(store[k].timestamp, now)}
    IN  [k \in DOMAIN store \ expired_keys |-> store[k]]

MaxCacheOps == 4   \* calls made on the cache in one behaviour

CacheKeys   == {"k1", "k2"}
CacheValues == {"v1", "v2"}

\* `written` is history: per key the value and time of the most recent
\* set that no delete or clear has followed.
NoCall == [op |-> "none", key |-> "none", at |-> 0, returned |-> <<>>,
           found |-> FALSE, before |-> <<>>]

InitCache ==
    /\ pc = "cache"
    /\ args = MakeArgs(0, [g \in Groups |-> Clean(g)])
    /\ result = NoResult
    /\ est_args = NoEstimateArgs
    /\ est_result = NoEstimate
    /\ pool = NotStarted /\ run = NotStarted
    /\ api = NotStarted /\ hist = NotStarted
    /\ insights = NotStarted
    /\ analysis_cache = [store |-> <<>>, now |-> 0, ops |-> 0,
                         written |-> [k \in CacheKeys |-> <<>>],
                         last |-> NoCall]

OtherThanCache ==
    <<pc, args, result, est_args, est_result, pool, run, api, hist, insights>>

Called(c, op, key, store, returned, found, written) ==
    [c EXCEPT !.store = store, !.ops = c.ops + 1, !.written = written,
              !.last = [op |-> op, key |-> key, at |-> c.now,
                        returned |-> returned, found |-> found,
                        before |-> c.store]]

Get(key) ==
    /\ analysis_cache.ops < MaxCacheOps
    /\ LET c == analysis_cache
           g == CacheGet(c.store, key, c.now)
       IN  analysis_cache' =
               Called(c, "get", key, g.cache,
                      IF g.hit THEN <<c.store[key].value>> ELSE <<>>,
                      g.hit, c.written)
    /\ UNCHANGED OtherThanCache

Set(key, value) ==
    /\ analysis_cache.ops < MaxCacheOps
    /\ LET c == analysis_cache
       IN  analysis_cache' =
               Called(c, "set", key, CacheSet(c.store, key, value, c.now),
                      <<>>, FALSE,
                      [c.written EXCEPT
                          ![key] = <<[value |-> value, at |-> c.now]>>])
    /\ UNCHANGED OtherThanCache

Has(key) ==
    /\ analysis_cache.ops < MaxCacheOps
    /\ LET c == analysis_cache
           h == CacheHas(c.store, key, c.now)
       IN  analysis_cache' =
               Called(c, "has", key, h.cache, <<>>, h.found, c.written)
    /\ UNCHANGED OtherThanCache

Delete(key) ==
    /\ analysis_cache.ops < MaxCacheOps
    /\ LET c == analysis_cache
       IN  analysis_cache' =
               Called(c, "delete", key, CacheDelete(c.store, key), <<>>,
                      FALSE, [c.written EXCEPT ![key] = <<>>])
    /\ UNCHANGED OtherThanCache

Clear ==
    /\ analysis_cache.ops < MaxCacheOps
    /\ LET c == analysis_cache
       IN  analysis_cache' =
               Called(c, "clear", "none", CacheClear(c.store), <<>>, FALSE,
                      [k \in CacheKeys |-> <<>>])
    /\ UNCHANGED OtherThanCache

Cleanup ==
    /\ analysis_cache.ops < MaxCacheOps
    /\ LET c == analysis_cache
       IN  analysis_cache' =
               Called(c, "cleanup_expired", "none",
                      CleanupExpired(c.store, c.now), <<>>, FALSE, c.written)
    /\ UNCHANGED OtherThanCache

\* time.time() moves on between two calls.
CacheTick ==
    /\ analysis_cache.now < MaxTicks * TickSeconds
    /\ analysis_cache' =
           [analysis_cache EXCEPT !.now = analysis_cache.now + TickSeconds]
    /\ UNCHANGED OtherThanCache

NextCache ==
    \/ \E key \in CacheKeys : Get(key)
    \/ \E key \in CacheKeys, value \in CacheValues : Set(key, value)
    \/ \E key \in CacheKeys : Has(key)
    \/ \E key \in CacheKeys : Delete(key)
    \/ Clear
    \/ Cleanup
    \/ CacheTick

SpecCache == InitCache /\ [][NextCache]_vars

(***************************************************************************)
(* Properties of the cache.                                                *)
(***************************************************************************)
\* At the time of the last call the most recent set of the key still
\* counts: no delete or clear has followed it and it is not older than the
\* TTL.
LiveWrite(c, key) ==
    /\ c.written[key] # <<>>
    /\ c.last.at - c.written[key][1].at <= CACHE_TTL_SECONDS

TooOld(entry, now) == now - entry.timestamp > CACHE_TTL_SECONDS

\* C23: get(key) returns the value of the most recent set(key) iff that
\* set is not older than ttl_seconds and no delete(key) or clear followed
\* it, else None; a get or has that finds an expired entry removes it;
\* cleanup_expired removes exactly the expired entries and leaves the
\* others as they were.
C23_TtlCache ==
    LET c    == analysis_cache
        last == c.last
    IN  /\ last.op = "get" =>
              last.returned = IF LiveWrite(c, last.key)
                              THEN <<c.written[last.key][1].value>>
                              ELSE <<>>
        /\ last.op = "has" => (last.found <=> LiveWrite(c, last.key))
        /\ (/\ last.op \in {"get", "has"}
            /\ last.key \in DOMAIN last.before
            /\ TooOld(last.before[last.key], last.at)) =>
              last.key \notin DOMAIN c.store
        /\ last.op = "cleanup_expired" =>
              /\ DOMAIN c.store =
                     {k \in DOMAIN last.before : ~TooOld(last.before[k], last.at)}
              /\ \A k \in DOMAIN c.store : c.store[k] = last.before[k]

\* A get finds the entry expired: it returns None and removes the entry.
C23_Witness ==
    /\ analysis_cache.last.op = "get"
    /\ analysis_cache.written[analysis_cache.last.key] # <<>>
    /\ analysis_cache.last.key \in DOMAIN analysis_cache.last.before
    /\ analysis_cache.last.key \notin DOMAIN analysis_cache.store
    /\ analysis_cache.last.returned = <<>>

(***************************************************************************)
(* estimate_repetitions_by_sampling on a very large total_rows.            *)
(*                                                                         *)
(* The interval bounds are Python floats (IEEE doubles, 53 significant     *)
(* bits).  For total_rows in [2^51, 2^52) the doubles are the multiples of *)
(* one half, so the rounding of upper * total_rows (line 65) and of        *)
(* round() (line 72) shows in the integers returned.  This part models the *)
(* calls in which every sampled text is repetitive (k = sample_size > 0,   *)
(* phat = 1.0) and total_rows = 2^51 + j for a small j >= 0.  A number of  *)
(* that size is held as coef * 2^51 + half / 2, the fraction coef and the  *)
(* whole number half small.                                                *)
(***************************************************************************)
MaxLargeSample == 6   \* largest sample_size of a call with a large total
MaxLargeOffset == 5   \* total_rows goes up to 2^51 + this

Large(num, den, half) == [coef |-> [num |-> num, den |-> den], half |-> half]

\* x <= y for two such numbers.
LargeLeq(x, y) ==
    LET c == CmpRat(x.coef.num, x.coef.den, y.coef.num, y.coef.den)
    IN  c < 0 \/ (c = 0 /\ x.half <= y.half)

\* With phat = 1.0 the exact value of center + margin is 1, and the double
\* min(1.0, center + margin) is 1.0 or the double just below it,
\* 1 - 2^-53: the number of steps below 1.0, for sample_size in 1..59, as
\* the expression of lines 57-63 evaluates in doubles.
UlpsBelowOne(sample_size) ==
    IF sample_size \in {6, 20, 21, 31, 38, 44, 48, 49, 51, 55, 57, 58}
    THEN 1 ELSE 0

\* upper * total_rows in doubles, total_rows = 2^51 + j.  For upper =
\* 1 - 2^-53 the exact product is total_rows - 1/4 - j / 2^53: the nearest
\* double is total_rows - 1/2, and for j = 0 the tie goes to 2^51.
UpperTimesTotal(ulps, j) ==
    IF ulps = 0 \/ j = 0 THEN Large(1, 1, 2 * j) ELSE Large(1, 1, 2 * j - 1)

\* int(round(x)) of coef * 2^51 + half / 2: a tie goes to the even integer
\* (2^51 is even).
RoundLarge(x) ==
    IF x.half % 2 = 0 THEN x
    ELSE IF ((x.half - 1) \div 2) % 2 = 0
    THEN [x EXCEPT !.half = x.half - 1]
    ELSE [x EXCEPT !.half = x.half + 1]

\* lower * total_rows for phat = 1.0: lower is n / (n + z * z) up to the
\* rounding of doubles, far enough from 1 for `half` not to matter.
LowerTimesTotal(sample_size) ==
    Large(ZZDen * sample_size, ZZDen * sample_size + ZZNum, 0)

\* The call with k = sample_size = Len(texts) > 0 and total_rows = 2^51 + j.
estimate_repetitions_large(texts, j, sample_size) ==
    LET k == SumSeq(MapCheckRep(texts))
    IN  [raised         |-> "none",
         sample_n       |-> sample_size,
         sample_count   |-> k,
         sample_prop    |-> Phat(k, sample_size),
         estimate_total |-> RoundLarge(Large(1, 1, 2 * j)),
         ci_total       |-> <<RoundLarge(LowerTimesTotal(sample_size)),
                              RoundLarge(UpperTimesTotal(
                                  UlpsBelowOne(sample_size), j))>>,
         total_rows     |-> Large(1, 1, 2 * j)]

InitEstimatorLarge ==
    /\ pc = "call_large"
    /\ args = MakeArgs(0, [g \in Groups |-> Clean(g)])
    /\ result = NoResult
    /\ est_result = NoEstimate
    /\ pool = NotStarted /\ run = NotStarted
    /\ api = NotStarted /\ hist = NotStarted
    /\ insights = NotStarted /\ analysis_cache = NotStarted
    /\ \E len \in 1 .. MaxLargeSample, j \in 0 .. MaxLargeOffset :
         est_args = [texts |-> [i \in 1 .. len |-> "rep"],
                     total_rows |-> Large(1, 1, 2 * j), sample_size |-> len]

EstimateLarge ==
    /\ pc = "call_large"
    /\ est_result' = estimate_repetitions_large(
                         est_args.texts, est_args.total_rows.half \div 2,
                         est_args.sample_size)
    /\ pc' = "return_large"
    /\ UNCHANGED <<args, result, est_args, pool, run, api, hist, insights,
                   analysis_cache>>

\* The estimator called with totals of both sizes.
InitEstimatorAnyTotal == InitEstimator \/ InitEstimatorLarge

NextEstimatorAnyTotal ==
    \/ Estimate
    \/ EstimateLarge

SpecEstimatorAnyTotal == InitEstimatorAnyTotal /\ [][NextEstimatorAnyTotal]_vars

\* C24: for every k in 0..n, n >= 0 and total_rows >= 0 the returned
\* estimate_total lies inside the returned interval:
\* ci_total[0] <= estimate_total <= ci_total[1].
C24_EstimateInsideInterval ==
    /\ (/\ pc = "return"
        /\ est_args.sample_size >= 0
        /\ est_result.sample_count <= est_args.sample_size) =>
          /\ est_result.ci_total[1] <= est_result.estimate_total
          /\ est_result.estimate_total <= est_result.ci_total[2]
    /\ pc = "return_large" =>
          /\ LargeLeq(est_result.ci_total[1], est_result.estimate_total)
          /\ LargeLeq(est_result.estimate_total, est_result.ci_total[2])

====
